---- MODULE Spec2Model ----
(***************************************************************************)
(* Model of the AI orchestration layer of ai-prompt-app:                   *)
(*   backend/src/services/ai/AIService.ts      (AIService)                 *)
(*   backend/src/services/ai/AIProvider.ts     (AIProvider.handleError)    *)
(*   backend/src/services/ai/OllamaProvider.ts (OllamaProvider)            *)
(*   backend/src/services/embeddingService.ts  (generateSmartResponse)     *)
(*                                                                         *)
(* One action is one synchronous run of the code between two awaits.       *)
(* Time is an integer clock; the providers (network) are the environment   *)
(* and answer nondeterministically.                                        *)
(***************************************************************************)
EXTENDS Integers, Sequences, FiniteSets, TLC

VARIABLES
    now,              \* Date.now()
    config,           \* AIService.config
    providers,        \* AIService.providers: Map in insertion order, <<[key, name]>>
    healthStatus,     \* AIService.healthStatus: Map provider name -> boolean
    lastHealthCheck,  \* AIService.lastHealthCheck: Map provider name -> timestamp
    aiAttached,       \* EmbeddingService.aiService # null
    req,              \* the generateResponse calls: locals, position, result, history
    hs,               \* the getHealthStatus call: position and locals
    liveLog,          \* history: per provider name, the time recorded by its last live check
                      \* (never cleared)
    thrown,           \* the error thrown by the last synchronous AIService call ("" if none)
    search,           \* the findSimilarDocuments / vectorSearch call: arguments and outcome
    prompts,          \* the prompts collection, in insertion order
    batch,            \* the updatePromptsWithEmbeddings call: position, locals, history
    fb                \* the generateFallbackResponse call: arguments and response

aiVars == <<now, config, providers, healthStatus, lastHealthCheck, aiAttached,
            req, hs, liveLog, thrown>>

embVars == <<search, prompts, batch, fb>>

vars == <<aiVars, embVars>>

-----------------------------------------------------------------------------
(* Bounds *)

MaxRetry == 2
Interval == 2
MaxTicks == 3
NumDocLists == 2
MaxDocs == 3
MaxPrompts == 3
MaxMatches == 6

(* Program constants; one tick of the clock is one second *)

RetryDelay == 1

\* EmbeddingService.EMBEDDING_DIMENSIONS, scaled down
EMBEDDING_DIMENSIONS == 2

\* The clock starts late enough that a missing timestamp (read as 0) is stale,
\* as with Date.now() in milliseconds since 1970.
T0 == Interval + 1
MaxTime == T0 + MaxTicks

Reqs == {1}
Keys == {"ollama", "custom"}
ProviderNames == {"ollama", "mybot"}

\* addProvider(key, provider): the keys and providers it is called with
AddedKeys == {"custom"}
CustomNames == {"mybot"}

\* rankedMatches, as the list of the matches' similarities in percent
DocLists == {d \in {<<>>, <<95>>, <<95, 60>>, <<85, 60, 40>>} : Len(d) < NumDocLists}
Query == <<"q">>

-----------------------------------------------------------------------------
(* Map helpers *)

MapGet(m, k, default) == IF k \in DOMAIN m THEN m[k] ELSE default

MapSet(m, k, v) == [x \in DOMAIN m \cup {k} |-> IF x = k THEN v ELSE m[x]]

EmptyMap == [x \in {} |-> TRUE]

RegHas(reg, k) == \E i \in 1..Len(reg) : reg[i].key = k

\* Map.get: the provider registered under k, or "" (undefined)
RegGet(reg, k) ==
    IF RegHas(reg, k)
    THEN (CHOOSE e \in {reg[i] : i \in 1..Len(reg)} : e.key = k).name
    ELSE ""

\* Map.set: replaces in place, or appends
RegSet(reg, k, n) ==
    IF RegHas(reg, k)
    THEN [i \in 1..Len(reg) |-> IF reg[i].key = k THEN [key |-> k, name |-> n] ELSE reg[i]]
    ELSE Append(reg, [key |-> k, name |-> n])

-----------------------------------------------------------------------------
(* Errors.  A message is the sequence of its words; <<>> is the empty string. *)

Includes(message, word) == \E i \in 1..Len(message) : message[i] = word

\* What a provider call can throw: an Error instance, or an AIProviderError object.
ErrorInstance(m) == [isError |-> TRUE, type |-> "", message |-> m, retryable |-> FALSE]
ErrorObject(t, m, r) == [isError |-> FALSE, type |-> t, message |-> m, retryable |-> r]

\* lastError = null
NoError == [type |-> "null", message |-> <<>>, retryable |-> FALSE]

\* Why a generation request of OllamaProvider fails: the connection is
\* refused, the host name does not resolve, the request is aborted by the
\* timeout, the server answers with a status that is not ok, or the answer is
\* not a finished generation.
OllamaFailures ==
    {"refused", "dns", "timeout", "http401", "http403", "http429", "http500",
     "http404", "incomplete"}

\* What makeRequest and generateResponse throw inside the try block, as
\* handleError reads it (.code, .status, .message).  fetch rejects with
\* TypeError("fetch failed"), the system error being its .cause; the abort is
\* thrown again as Error("Request timeout"); a status that is not ok becomes
\* Error("Ollama API error (<status>): <body>").  None carries .code or
\* .status.
OllamaError(cause) ==
    [ code    |-> "",
      status  |-> 0,
      message |-> CASE cause \in {"refused", "dns"} -> <<"fetch", "failed">>
                    [] cause = "timeout"    -> <<"Request", "timeout">>
                    [] cause = "http401"    -> <<"Ollama", "API", "error", "(401):", "body">>
                    [] cause = "http403"    -> <<"Ollama", "API", "error", "(403):", "body">>
                    [] cause = "http429"    -> <<"Ollama", "API", "error", "(429):", "body">>
                    [] cause = "http500"    -> <<"Ollama", "API", "error", "(500):", "body">>
                    [] cause = "http404"    -> <<"Ollama", "API", "error", "(404):", "body">>
                    [] cause = "incomplete" -> <<"Incomplete", "response", "from", "Ollama">> ]

HandleError(error) ==
    IF error.code = "ECONNREFUSED" \/ error.code = "ENOTFOUND"
    THEN ErrorObject("network", <<"Network", "connection", "failed">>, TRUE)
    ELSE IF error.code = "ETIMEDOUT" \/ Includes(error.message, "timeout")
    THEN ErrorObject("timeout", <<"Request", "timed", "out">>, TRUE)
    ELSE IF error.status = 401 \/ error.status = 403
    THEN ErrorObject("auth", <<"Authentication", "failed">>, FALSE)
    ELSE IF error.status = 429
    THEN ErrorObject("rate_limit", <<"Rate", "limit", "exceeded">>, TRUE)
    ELSE IF error.status >= 500
    THEN ErrorObject("model_error", <<"Model", "service", "error">>, TRUE)
    ELSE ErrorObject("unknown",
                     IF error.message # <<>> THEN error.message ELSE <<"Unknown", "error">>,
                     FALSE)

\* A provider registered with addProvider is any implementation of AIProvider:
\* it may throw an Error instance or any AIProviderError, also one with an
\* empty message.
CustomThrows ==
    { ErrorInstance(<<"boom">>),
      ErrorObject("rate_limit", <<>>, TRUE) }

\* history: an error together with the cause of the failure
WithCause(e, cause) ==
    [f \in DOMAIN e \cup {"cause"} |-> IF f = "cause" THEN cause ELSE e[f]]

\* The rejections of provider.generateResponse, by provider; for
\* OllamaProvider: catch (error) { throw this.handleError(error) }
GenThrows(name) ==
    IF name = "ollama"
    THEN {WithCause(HandleError(OllamaError(c)), c) : c \in OllamaFailures}
    ELSE {WithCause(e, "") : e \in CustomThrows}

\* The outcomes of provider.healthCheck(): OllamaProvider.healthCheck catches
\* everything and returns a boolean; another implementation may throw.
HealthOutcomes(name) ==
    IF name = "ollama" THEN {"true", "false"} ELSE {"true", "false", "throws"}

\* catch (error): lastError = error instanceof Error ? {...} : error
CatchError(error) ==
    IF error.isError
    THEN [type |-> "unknown", message |-> error.message, retryable |-> TRUE]
    ELSE [type |-> error.type, message |-> error.message, retryable |-> error.retryable]

-----------------------------------------------------------------------------
(* FallbackResponseGenerator.generateFallbackResponse: a pure function of the
   query and the matches. *)

Take(s, n) == IF Len(s) <= n THEN s ELSE SubSeq(s, 1, n)

\* A number that is no whole number of hundredths: the fraction num / den
Frac(n, d) == [num |-> n, den |-> d]
FracLeq(a, b) == a.num * b.den <= b.num * a.den
FracEq(a, b) == a.num * b.den = b.num * a.den

\* A text is the sequence of its characters.
ToLowerCase(text) ==
    [i \in 1..Len(text) |->
        CASE text[i] = "H" -> "h"
          [] text[i] = "W" -> "w"
          [] text[i] = "B" -> "b"
          [] OTHER -> text[i]]

\* String.prototype.includes
StringIncludes(text, part) ==
    \E i \in 0..(Len(text) - Len(part)) : SubSeq(text, i + 1, i + Len(part)) = part

\* generateSearchSuggestions(query)
GenerateSearchSuggestions(query) ==
    LET lowerQuery == ToLowerCase(query)
        fixed == << "Try using different keywords or synonyms",
                    "Make your question more specific",
                    "Break complex questions into smaller parts",
                    "Check for spelling errors" >>
        s1 == IF StringIncludes(lowerQuery, <<"h", "o", "w">>)
                   \/ StringIncludes(lowerQuery, <<"w", "h", "a", "t">>)
              THEN Append(fixed, "Try rephrasing as a declarative statement")
              ELSE fixed
        s2 == IF Len(lowerQuery) < 10
              THEN Append(s1, "Provide more context in your question")
              ELSE s1
        s3 == IF StringIncludes(lowerQuery, <<"b", "e", "s", "t">>)
                   \/ StringIncludes(lowerQuery, <<"b", "e", "t", "t", "e", "r">>)
              THEN Append(s2, "Try searching for specific techniques or methods")
              ELSE s2
    IN  Take(s3, 5)

\* Variant of the response for no matches: the query left out of the content.
GenerateNoResultsResponseNoQuery(query) ==
    [ content  |-> [ kind        |-> "no_results",
                     query       |-> <<>>,
                     topResults  |-> <<>>,
                     suggestions |-> GenerateSearchSuggestions(query) ],
      metadata |-> [ provider |-> "vector-fallback", sourceCount |-> 0,
                     avgSimilarity |-> Frac(0, 1), confidence |-> Frac(1, 10) ] ]

\* generateNoResultsResponse(query, startTime): the content is the template
\* text around the query and the numbered suggestions; the confidence is 0.1
GenerateNoResultsResponse(query) ==
    [ content  |-> [ kind        |-> "no_results",
                     query       |-> query,
                     topResults  |-> <<>>,
                     suggestions |-> GenerateSearchSuggestions(query) ],
      metadata |-> [ provider |-> "vector-fallback", sourceCount |-> 0,
                     avgSimilarity |-> Frac(0, 1), confidence |-> Frac(1, 10) ] ]

\* Variant of the skip in the "Additional Information" block: nothing skipped.
AlreadyShownNever(index, bestMatch) == FALSE

\* if (index === 0 && bestMatch.similarity >= 0.8) return
AlreadyShown(index, bestMatch) == index = 1 /\ bestMatch >= 80

\* createStructuredResponse(query, similarDocuments): the content, as the
\* parts the template puts together.  A match is named by its place in
\* similarDocuments; where a match is named, the text holds its stored
\* response (and, in the sources, its prompt and its similarity).  The "Key
\* Insights", which are cut out of the responses' wording, are left out.
CreateStructuredResponse(query, docs) ==
    LET topResults == Take(docs, 5)
        bestMatch  == topResults[1]
        places     == [i \in 1..Len(topResults) |-> i]
        Listed(i)  == ~AlreadyShown(i, bestMatch)
    IN  [ kind         |-> "structured",
          query        |-> query,
          topResults   |-> topResults,
          entries      |-> Len(topResults),
          mostRelevant |-> IF bestMatch >= 80 THEN <<1>> ELSE <<>>,
          additional   |-> IF Len(topResults) > 1 \/ bestMatch < 80
                           THEN SelectSeq(places, Listed) ELSE <<>>,
          closing      |-> IF bestMatch >= 90 THEN "highly relevant"
                           ELSE IF bestMatch >= 70 THEN "good matches"
                           ELSE "closest matches" ]

RECURSIVE SumSimilarity(_)
SumSimilarity(results) ==
    IF results = <<>> THEN 0 ELSE Head(results) + SumSimilarity(Tail(results))

\* Math.max(...results.map(r => r.similarity))
RECURSIVE MaxSimilarity(_)
MaxSimilarity(results) ==
    IF Len(results) = 1 THEN results[1]
    ELSE LET m == MaxSimilarity(Tail(results))
         IN  IF Head(results) > m THEN Head(results) ELSE m

\* calculateAverageSimilarity(results), in hundredths
CalculateAverageSimilarity(results) ==
    IF Len(results) = 0 THEN Frac(0, 1)
    ELSE Frac(SumSimilarity(results), Len(results))

\* Variant of the penalty: the comparison turned round.
QualityPenaltyForHigh(topSimilarity) == IF topSimilarity >= 50 THEN 30 ELSE 0

\* topSimilarity < 0.5 ? 0.3 : 0, in hundredths
QualityPenalty(topSimilarity) == IF topSimilarity < 50 THEN 30 ELSE 0

\* calculateConfidence(results, avgSimilarity): with n the denominator of
\* avgSimilarity, every term is a whole number of 1/(500 n):
\*   0.3 = 150 n, similarityFactor * 0.4 = avg.num + n * top,
\*   sourceFactor * 0.1 = 10 n * sourceCount, 0.1 = 50 n, 0.85 = 425 n
CalculateConfidence(results, avgSimilarity) ==
    IF Len(results) = 0 THEN Frac(1, 10)
    ELSE LET topSimilarity == MaxSimilarity(results)
             sourceCount   == IF Len(results) < 5 THEN Len(results) ELSE 5
             n             == avgSimilarity.den
             raw           == 150 * n + (avgSimilarity.num + n * topSimilarity)
                                + 10 * n * sourceCount
                                - 5 * n * QualityPenalty(topSimilarity)
             capped        == IF raw < 425 * n THEN raw ELSE 425 * n
         IN  Frac(IF capped > 50 * n THEN capped ELSE 50 * n, 500 * n)

GenerateFallbackResponse(query, docs) ==
    IF Len(docs) = 0
    THEN GenerateNoResultsResponse(query)
    ELSE LET avgSimilarity == CalculateAverageSimilarity(docs)
         IN  [ content  |-> CreateStructuredResponse(query, docs),
               metadata |-> [ provider      |-> "vector-fallback",
                              sourceCount   |-> Len(docs),
                              avgSimilarity |-> avgSimilarity,
                              confidence    |-> CalculateConfidence(docs, avgSimilarity) ] ]

-----------------------------------------------------------------------------
(* EmbeddingService: vector utilities.  A vector is the sequence of its
   components; a similarity is held in hundredths (1.0 is 100).  The vectors
   used have integer norms, so that every similarity is a whole number of
   hundredths and the floating-point result is exact. *)

\* The `embedding` field of a PromptDocument: absent, or an array
NoEmbedding == [has |-> FALSE, vec |-> <<>>]
Embedding(v) == [has |-> TRUE, vec |-> v]

\* The query embeddings and the stored embeddings
QueryVectors == {<<1, 0>>, <<3, 4>>}
DocEmbeddings ==
    {NoEmbedding} \cup
        {Embedding(v) : v \in {<<>>, <<1, 0>>, <<3, 4>>, <<4, 3>>, <<0, 0>>, <<1, 0, 0>>}}

\* The candidate lists: docs[i] is the embedding field of the i-th document
RECURSIVE SeqsUpTo(_, _)
SeqsUpTo(S, n) ==
    IF n = 0 THEN {<<>>}
    ELSE LET shorter == SeqsUpTo(S, n - 1)
         IN  shorter \cup {Append(s, x) : s \in {t \in shorter : Len(t) = n - 1}, x \in S}

Candidates == SeqsUpTo(DocEmbeddings, MaxDocs)

\* threshold, in hundredths, and limit: the route hands on what the request
\* body holds, unvalidated
Thresholds == {0, 60, 70}
Limits == {-1, 0, 2, 5}

RECURSIVE Dot(_, _)
Dot(a, b) == IF a = <<>> THEN 0 ELSE Head(a) * Head(b) + Dot(Tail(a), Tail(b))

\* Math.sqrt, on the perfect squares
Sqrt(n) == CHOOSE r \in 0..n : r * r = n

\* calculateSimilarity(a, b), for a.length = b.length
CalculateSimilarity(a, b) ==
    LET dot == Dot(a, b)
        mag == Sqrt(Dot(a, a)) * Sqrt(Dot(b, b))
    IN  IF mag # 0 THEN (100 * dot) \div mag ELSE 0

\* if (a.length !== b.length) throw new Error("Vector dim mismatch")
DimMismatch(a, b) == Len(a) # Len(b)

\* .filter((d) => d.embedding?.length)
HasEmbedding(d) == d.has /\ Len(d.vec) # 0

\* Variant of the threshold filter: nothing filtered.
PassesThresholdAlways(similarity, threshold) == TRUE

\* .filter((r) => r.similarity >= threshold)
PassesThreshold(similarity, threshold) == similarity >= threshold

\* Variant of the comparison: an entry goes before the entries equal to it.
ComesFirstOrEqual(a, b) == a.similarity >= b.similarity

\* (a, b) => b.similarity - a.similarity is negative: a sorts before b
ComesFirst(a, b) == b.similarity - a.similarity < 0

\* Array.prototype.sort is stable: an entry is placed after the entries that
\* do not sort after it.
RECURSIVE InsertSorted(_, _)
InsertSorted(r, s) ==
    IF s = <<>> THEN <<r>>
    ELSE IF ComesFirst(r, Head(s)) THEN <<r>> \o s
    ELSE <<Head(s)>> \o InsertSorted(r, Tail(s))

RECURSIVE SortBySimilarity(_)
SortBySimilarity(s) ==
    IF s = <<>> THEN <<>>
    ELSE InsertSorted(s[Len(s)], SortBySimilarity(SubSeq(s, 1, Len(s) - 1)))

\* Array.prototype.slice(0, end): a negative end counts from the end
Slice(s, end) ==
    IF end < 0
    THEN Take(s, IF Len(s) + end > 0 THEN Len(s) + end ELSE 0)
    ELSE Take(s, end)

\* findSimilarDocuments(queryEmb, docs, threshold, limit): the list returned,
\* each entry naming its document by its index in docs, or the throw of
\* calculateSimilarity out of the map
FindSimilarDocuments(queryEmb, docs, threshold, limit) ==
    LET Indexed   == [i \in 1..Len(docs) |-> [document |-> i, embedding |-> docs[i]]]
        WithEmb(d) == HasEmbedding(d.embedding)
        withEmb   == SelectSeq(Indexed, WithEmb)
        Passes(r) == PassesThreshold(r.similarity, threshold)
    IN  IF \E i \in 1..Len(withEmb) : DimMismatch(queryEmb, withEmb[i].embedding.vec)
        THEN [threw |-> TRUE, message |-> "Vector dim mismatch", results |-> <<>>]
        ELSE LET mapped == [i \in 1..Len(withEmb) |->
                              [ document   |-> withEmb[i].document,
                                similarity |-> CalculateSimilarity(
                                                   queryEmb, withEmb[i].embedding.vec) ]]
             IN  [ threw   |-> FALSE,
                   message |-> "",
                   results |-> Slice(SortBySimilarity(SelectSeq(mapped, Passes)), limit) ]

\* The locals and the outcome of one search call
IdleSearch ==
    [ pc        |-> "idle",    \* idle, ready, found (findSimilarDocuments returned
                               \* or threw), searched (vectorSearch did)
      queryEmb  |-> <<>>,
      docs      |-> <<>>,
      threshold |-> 0,
      limit     |-> 0,
      embedded  |-> FALSE,     \* the query embedding was obtained
      threw     |-> FALSE,
      message   |-> "",
      results   |-> <<>>,
      response  |-> [source |-> "none"] ]   \* what smartSearch returned

-----------------------------------------------------------------------------
(* EmbeddingService: generation and validation of embeddings.  Here an
   element of a vector is known by what the validation looks at: its typeof,
   and whether it is a finite number. *)

Num       == [typeof |-> "number", finite |-> TRUE]
NonFinite == [typeof |-> "number", finite |-> FALSE]    \* NaN, Infinity
Str       == [typeof |-> "string", finite |-> FALSE]

Repeat(x, n) == [i \in 1..n |-> x]

\* res.data.embedding when it is an array: of EMBEDDING_DIMENSIONS numbers,
\* of another length (the model in use decides the length), empty, holding a
\* number that is not finite (JSON.parse("1e999")), or holding a string
EmbeddingPayloads ==
    { Repeat(Num, EMBEDDING_DIMENSIONS),
      Repeat(Num, EMBEDDING_DIMENSIONS - 1),
      <<>>,
      [Repeat(Num, EMBEDDING_DIMENSIONS) EXCEPT ![EMBEDDING_DIMENSIONS] = NonFinite],
      [Repeat(Num, EMBEDDING_DIMENSIONS) EXCEPT ![EMBEDDING_DIMENSIONS] = Str] }

\* generateEmbedding(text): returns res.data.embedding when it is an array;
\* throws "Failed to generate embedding via Ollama" when the request fails or
\* the payload is no array
EmbeddingOutcomes ==
    {[ok |-> TRUE, embedding |-> p] : p \in EmbeddingPayloads}
        \cup {[ok |-> FALSE, embedding |-> <<>>]}

\* isValidEmbedding(vec)
IsValidEmbedding(vec) ==
    /\ Len(vec) = EMBEDDING_DIMENSIONS
    /\ \A i \in 1..Len(vec) : vec[i].typeof = "number"

\* The locals of one updatePromptsWithEmbeddings call, with those of its
\* batchGenerateEmbeddings call
IdleBatch ==
    [ pc           |-> "idle",   \* idle, embedding (generateEmbedding awaited),
                                 \* updating (updateOne awaited), done
      docs         |-> <<>>,     \* promptsWithoutEmbeddings, as places in prompts
      out          |-> <<>>,     \* batchGenerateEmbeddings: out
      i            |-> 0,        \* the loop variable of the update loop
      updatedCount |-> 0,
      failed       |-> <<>>,     \* history: whether the k-th generation threw
      log          |-> <<>>,     \* history: the embedding requests started and ended
      validated    |-> <<>> ]    \* history: the isValidEmbedding calls

\* The arguments and the response of one generateFallbackResponse call
IdleFb ==
    [ pc       |-> "idle",     \* idle, ready, done
      query    |-> <<>>,
      docs     |-> <<>>,
      response |-> [content |-> [kind |-> "none"]] ]

\* No operation of the embedding side is under way.
EmbIdle ==
    /\ search = IdleSearch
    /\ prompts = <<>>
    /\ batch = IdleBatch
    /\ fb = IdleFb

-----------------------------------------------------------------------------
(* AIService.generateResponse: the locals of one call *)

NoResult == [source |-> "none"]

IdleReq ==
    [ pc         |-> "idle",     \* idle, hc_wait, gen_wait, sleep, done
      retryCount |-> 0,
      lastError  |-> NoError,
      cur        |-> "",         \* primaryProvider of the running attempt (its name)
      hcNow      |-> 0,          \* `now` of the running checkProviderHealth
      health     |-> "none",     \* history: how the running attempt learnt the health
      wake       |-> 0,          \* end of the running sleep
      entered    |-> FALSE,      \* AIService.generateResponse was entered
      docs       |-> <<>>,       \* similarDocuments
      result     |-> NoResult,   \* what the call returned or threw
      trace      |-> <<>>,       \* history: the attempts, in order
      sleeps     |-> <<>> ]      \* history: the delays slept, in order

\* while (retryCount <= this.config.retryAttempts)
LoopCondition(retryCount) == retryCount <= config.retryAttempts

\* Variants of the break condition: `>` for `>=`; the retryable flag not looked at.
ShouldBreakLate(lastError, retryCount) ==
    ~lastError.retryable \/ retryCount > config.retryAttempts

ShouldBreakOnBudgetOnly(lastError, retryCount) ==
    retryCount >= config.retryAttempts

\* if (!lastError.retryable || retryCount >= this.config.retryAttempts) break
ShouldBreak(lastError, retryCount) ==
    ~lastError.retryable \/ retryCount >= config.retryAttempts

\* Variant of the delay: the exponent not reduced by one.
BackoffDelayDoubled(retryCount) == config.retryDelay * (2 ^ retryCount)

\* this.config.retryDelay * Math.pow(2, retryCount - 1)
BackoffDelay(retryCount) == config.retryDelay * (2 ^ (retryCount - 1))

\* Variant of the staleness test: the wrong configuration field as the window.
CacheFreshByRetryDelay(lhc, name, t) == t - MapGet(lhc, name, 0) < config.retryDelay

\* now - lastCheck < this.config.healthCheckInterval, lastCheck defaulting to 0
CacheFresh(lhc, name, t) == t - MapGet(lhc, name, 0) < config.healthCheckInterval

\* Variant of the cached read: has() for get().
CachedHealthPresent(name) == name \in DOMAIN healthStatus

\* Variant of the cached health: the cached value is not looked at.
CachedHealthAlways(name) == TRUE

\* this.healthStatus.get(providerName) || false
CachedHealth(name) == MapGet(healthStatus, name, FALSE)

\* Variant of the reason: the recorded error not looked at.
FallbackReasonFixed(lastError) == <<"AI", "provider", "unavailable">>

\* lastError?.message || "AI provider unavailable"
FallbackReason(lastError) ==
    IF lastError.message # <<>> THEN lastError.message
    ELSE <<"AI", "provider", "unavailable">>

\* `AI service failed: ${lastError?.message || "Unknown error"}`
FailureMessage(lastError) ==
    <<"AI", "service", "failed:">> \o
        (IF lastError.message # <<>> THEN lastError.message ELSE <<"Unknown", "error">>)

\* Variants of the fallback switch: inverted; always on.
FallbackInverted == ~config.fallbackEnabled

FallbackAlways == TRUE

\* if (this.config.fallbackEnabled)
FallbackEnabled == config.fallbackEnabled

\* The code after the loop: the fallback response, or the final throw.
Finish(q) ==
    IF FallbackEnabled
    THEN [q EXCEPT
            !.pc = "done",
            !.result =
                [ source   |-> "fallback",
                  content  |-> GenerateFallbackResponse(Query, q.docs).content,
                  metadata |-> [ provider       |-> "vector-fallback",
                                 retryCount     |-> q.retryCount,
                                 fallbackReason |-> FallbackReason(q.lastError) ] ]]
    ELSE [q EXCEPT
            !.pc = "done",
            !.result = [source |-> "error", message |-> FailureMessage(q.lastError)]]

\* return { content, source: "ai", metadata: {...aiResponse.metadata, retryCount} }
Success(q) ==
    [q EXCEPT
        !.pc = "done",
        !.trace = Append(@, [ health |-> q.health, gen |-> "ok", retryable |-> FALSE,
                              message |-> <<>>, type |-> "", cause |-> "" ]),
        !.health = "none",
        !.cur = "",
        !.hcNow = 0,
        !.result =
            [ source   |-> "ai",
              content  |-> <<"generated", q.cur, q.docs>>,
              metadata |-> IF q.retryCount > 0
                           THEN [provider |-> q.cur, retryCount |-> q.retryCount]
                           ELSE [provider |-> q.cur] ]]

RECURSIVE Attempt(_), Catch(_, _, _)

\* The catch block of the loop, for `error` thrown in the attempt; `called`
\* tells whether the generation call was made in this attempt.
Catch(q, error, called) ==
    LET e  == CatchError(error)
        q1 == [q EXCEPT
                 !.lastError = e,
                 !.trace = Append(@, [ health    |-> q.health,
                                       gen       |-> IF called THEN "failed" ELSE "none",
                                       retryable |-> e.retryable,
                                       message   |-> error.message,
                                       type      |-> e.type,
                                       cause     |-> IF "cause" \in DOMAIN error
                                                     THEN error.cause ELSE "" ]),
                 !.health = "none",
                 !.cur = "",
                 !.hcNow = 0]
    IN  IF ShouldBreak(e, q1.retryCount)
        THEN Finish(q1)
        ELSE LET n == q1.retryCount + 1
             IN  IF n <= config.retryAttempts
                 THEN [q1 EXCEPT
                         !.retryCount = n,
                         !.pc = "sleep",
                         !.wake = now + BackoffDelay(n),
                         !.sleeps = Append(@, BackoffDelay(n))]
                 ELSE Attempt([q1 EXCEPT !.retryCount = n])

\* One pass from the loop head to the next await: getPrimaryProvider, then
\* checkProviderHealth up to its cached return or its await of the live probe.
Attempt(q) ==
    IF LoopCondition(q.retryCount)
    THEN LET p == RegGet(providers, config.primaryProvider)
         IN  IF p = ""
             THEN Catch(q, ErrorInstance(<<"Primary", "AI", "provider", "not", "available">>),
                        FALSE)
             ELSE IF CacheFresh(lastHealthCheck, p, now)
             THEN LET qc == [q EXCEPT !.cur = p, !.hcNow = now,
                                      !.health = IF MapGet(healthStatus, p, FALSE)
                                                 THEN "cached_ok" ELSE "cached_bad"]
                  IN  IF CachedHealth(p)
                      THEN [qc EXCEPT !.pc = "gen_wait"]
                      ELSE Catch(qc, ErrorInstance(<<"Primary", "provider", "failed",
                                                     "health", "check">>),
                                 FALSE)
             ELSE [q EXCEPT !.pc = "hc_wait", !.cur = p, !.hcNow = now, !.health = "none"]
    ELSE Finish(q)

-----------------------------------------------------------------------------
(* AIService.getHealthStatus: the locals of the call *)

IdleHs == [pc |-> "idle", rest |-> <<>>, hcNow |-> 0]

RegNames(reg) == [i \in 1..Len(reg) |-> reg[i].name]

RECURSIVE HsLoop(_, _)

\* for (const [name, provider] of this.providers): runs up to the first
\* provider whose cache entry is stale, whose probe it awaits.
HsLoop(list, lhc) ==
    IF list = <<>> THEN IdleHs
    ELSE IF CacheFresh(lhc, Head(list), now) THEN HsLoop(Tail(list), lhc)
    ELSE [pc |-> "wait", rest |-> list, hcNow |-> now]

\* Operations are issued one at a time: none is in flight.
NoneInFlight ==
    /\ \A r \in Reqs : req[r].pc = "idle"
    /\ hs.pc = "idle"

\* The services are wired before they serve (routes/smartSearch.ts,
\* initializeServices): setAIService comes before any AIService operation.
Wired == aiAttached

-----------------------------------------------------------------------------
(* Construction *)

\* AIService.initializeProviders
InitializeProviders(cfg) ==
    IF cfg.ollama THEN <<[key |-> "ollama", name |-> "ollama"]>> ELSE <<>>

\* The configurations given to the constructor
Configs ==
    [ primaryProvider     : Keys,
      fallbackEnabled     : BOOLEAN,
      retryAttempts       : 0..MaxRetry,
      retryDelay          : {RetryDelay},
      healthCheckInterval : {Interval},
      ollama              : BOOLEAN ]      \* config.providers.ollama is set

Init ==
    /\ now = T0
    /\ config \in Configs
    /\ providers = InitializeProviders(config)
    /\ healthStatus = EmptyMap
    /\ lastHealthCheck = EmptyMap
    /\ aiAttached = FALSE
    /\ req = [r \in Reqs |-> IdleReq]
    /\ hs = IdleHs
    /\ liveLog = EmptyMap
    /\ thrown = ""
    /\ EmbIdle

-----------------------------------------------------------------------------
(* Actions *)

\* The clock advances.
Tick ==
    /\ Wired
    /\ \A r \in Reqs : req[r].pc # "done"
    /\ now < MaxTime
    /\ now' = now + 1
    /\ UNCHANGED embVars
    /\ UNCHANGED <<config, providers, healthStatus, lastHealthCheck, aiAttached,
                   req, hs, liveLog, thrown>>

\* AIService.generateResponse(query, similarDocuments) is called: it runs to
\* its first await, or to its end.
GenerateResponse(r, d) ==
    /\ Wired
    /\ NoneInFlight
    /\ req' = [req EXCEPT ![r] = Attempt([IdleReq EXCEPT !.entered = TRUE, !.docs = d])]
    /\ thrown' = ""
    /\ UNCHANGED embVars
    /\ UNCHANGED <<now, config, providers, healthStatus, lastHealthCheck, aiAttached,
                   hs, liveLog>>

\* EmbeddingService.generateSmartResponse(query, similar)
GenerateSmartResponse(r, d) ==
    /\ NoneInFlight
    /\ req' = [req EXCEPT ![r] =
                 IF aiAttached
                 THEN Attempt([IdleReq EXCEPT !.entered = TRUE, !.docs = d])
                 ELSE [IdleReq EXCEPT
                         !.pc = "done",
                         !.docs = d,
                         !.result =
                             [ source   |-> "fallback",
                               content  |-> <<"AI", "service", "unavailable">>,
                               metadata |-> [provider |-> "ollama-embedding-only"] ]]]
    /\ thrown' = ""
    /\ UNCHANGED embVars
    /\ UNCHANGED <<now, config, providers, healthStatus, lastHealthCheck, aiAttached,
                   hs, liveLog>>

\* Variant of the end of a health check: the cache is stamped with the time
\* of the write, not with the time read before the await.
HealthReturnStampsNow(r, outcome) ==
    LET q         == req[r]
        isHealthy == (outcome = "true")
    IN  /\ q.pc = "hc_wait"
        /\ outcome \in HealthOutcomes(q.cur)
        /\ healthStatus' = MapSet(healthStatus, q.cur, isHealthy)
        /\ lastHealthCheck' = MapSet(lastHealthCheck, q.cur, now)
        /\ liveLog' = MapSet(liveLog, q.cur, now)
        /\ req' = [req EXCEPT ![r] =
                     IF isHealthy
                     THEN [q EXCEPT !.pc = "gen_wait", !.health = "live_ok"]
                     ELSE Catch([q EXCEPT !.health = "live_bad"],
                                ErrorInstance(<<"Primary", "provider", "failed",
                                                "health", "check">>),
                                FALSE)]
        /\ UNCHANGED embVars
        /\ UNCHANGED <<now, config, providers, aiAttached, hs, thrown>>

\* provider.healthCheck() settles in checkProviderHealth: the cache is written
\* with the `now` read before the await, and the attempt goes on.
HealthReturn(r, outcome) ==
    LET q         == req[r]
        isHealthy == (outcome = "true")
    IN  /\ q.pc = "hc_wait"
        /\ outcome \in HealthOutcomes(q.cur)
        /\ healthStatus' = MapSet(healthStatus, q.cur, isHealthy)
        /\ lastHealthCheck' = MapSet(lastHealthCheck, q.cur, q.hcNow)
        /\ liveLog' = MapSet(liveLog, q.cur, q.hcNow)
        /\ req' = [req EXCEPT ![r] =
                     IF isHealthy
                     THEN [q EXCEPT !.pc = "gen_wait", !.health = "live_ok"]
                     ELSE Catch([q EXCEPT !.health = IF outcome = "throws"
                                                     THEN "live_throw" ELSE "live_bad"],
                                ErrorInstance(<<"Primary", "provider", "failed",
                                                "health", "check">>),
                                FALSE)]
        /\ UNCHANGED embVars
        /\ UNCHANGED <<now, config, providers, aiAttached, hs, thrown>>

\* primaryProvider.generateResponse(...) resolves.
GenSucceeds(r) ==
    /\ req[r].pc = "gen_wait"
    /\ req' = [req EXCEPT ![r] = Success(req[r])]
    /\ UNCHANGED embVars
    /\ UNCHANGED <<now, config, providers, healthStatus, lastHealthCheck, aiAttached,
                   hs, liveLog, thrown>>

\* primaryProvider.generateResponse(...) rejects with `error`.
GenFails(r, error) ==
    /\ req[r].pc = "gen_wait"
    /\ error \in GenThrows(req[r].cur)
    /\ req' = [req EXCEPT ![r] = Catch(req[r], error, TRUE)]
    /\ UNCHANGED embVars
    /\ UNCHANGED <<now, config, providers, healthStatus, lastHealthCheck, aiAttached,
                   hs, liveLog, thrown>>

\* The backoff sleep ends: the loop goes round.
WakeUp(r) ==
    /\ req[r].pc = "sleep"
    /\ now >= req[r].wake
    /\ req' = [req EXCEPT ![r] = Attempt([req[r] EXCEPT !.wake = 0])]
    /\ UNCHANGED embVars
    /\ UNCHANGED <<now, config, providers, healthStatus, lastHealthCheck, aiAttached,
                   hs, liveLog, thrown>>

\* The call has returned or thrown: its caller takes the outcome.
Return(r) ==
    /\ req[r].pc = "done"
    /\ req' = [req EXCEPT ![r] = IdleReq]
    /\ UNCHANGED embVars
    /\ UNCHANGED <<now, config, providers, healthStatus, lastHealthCheck, aiAttached,
                   hs, liveLog, thrown>>

\* AIService.getHealthStatus() is called.
GetHealthStatus ==
    /\ Wired
    /\ NoneInFlight
    /\ hs' = HsLoop(RegNames(providers), lastHealthCheck)
    /\ thrown' = ""
    /\ UNCHANGED embVars
    /\ UNCHANGED <<now, config, providers, healthStatus, lastHealthCheck, aiAttached,
                   req, liveLog>>

\* The probe awaited by getHealthStatus settles.
HsReturn(outcome) ==
    LET name == Head(hs.rest)
        lhc  == MapSet(lastHealthCheck, name, hs.hcNow)
    IN  /\ hs.pc = "wait"
        /\ outcome \in HealthOutcomes(name)
        /\ healthStatus' = MapSet(healthStatus, name, outcome = "true")
        /\ lastHealthCheck' = lhc
        /\ liveLog' = MapSet(liveLog, name, hs.hcNow)
        /\ hs' = HsLoop(Tail(hs.rest), lhc)
        /\ UNCHANGED embVars
        /\ UNCHANGED <<now, config, providers, aiAttached, req, thrown>>

\* AIService.updateConfig(newConfig): newConfig is a partial configuration.
ConfigPatches ==
    {[fallbackEnabled |-> b] : b \in BOOLEAN}
        \cup {[retryAttempts |-> n] : n \in 0..MaxRetry}
        \cup {[primaryProvider |-> k] : k \in Keys}
        \cup {[ollama |-> b] : b \in BOOLEAN}

UpdateConfig(newConfig) ==
    LET merged == [f \in DOMAIN config |->
                     IF f \in DOMAIN newConfig THEN newConfig[f] ELSE config[f]]
    IN  /\ Wired
        /\ NoneInFlight
        /\ config' = merged
        /\ providers' = IF "ollama" \in DOMAIN newConfig
                        THEN InitializeProviders(merged)
                        ELSE providers
        /\ thrown' = ""
        /\ UNCHANGED embVars
        /\ UNCHANGED <<now, healthStatus, lastHealthCheck, aiAttached, req, hs, liveLog>>

\* Variant of addProvider: the registry is replaced by the added provider.
AddProviderReplacing(key, name) ==
    /\ Wired
    /\ NoneInFlight
    /\ providers' = <<[key |-> key, name |-> name]>>
    /\ thrown' = ""
    /\ UNCHANGED embVars
    /\ UNCHANGED <<now, config, healthStatus, lastHealthCheck, aiAttached, req, hs,
                   liveLog>>

\* AIService.addProvider(name, provider)
AddProvider(key, name) ==
    /\ Wired
    /\ NoneInFlight
    /\ providers' = RegSet(providers, key, name)
    /\ thrown' = ""
    /\ UNCHANGED embVars
    /\ UNCHANGED <<now, config, healthStatus, lastHealthCheck, aiAttached, req, hs,
                   liveLog>>

\* Variant of the registration test: any well-formed provider key passes.
IsRegisteredAnyKey(providerName) == providerName \in Keys

\* this.providers.has(providerName)
IsRegistered(providerName) == RegHas(providers, providerName)

\* AIService.setPrimaryProvider(providerName)
SetPrimaryProvider(providerName) ==
    /\ Wired
    /\ NoneInFlight
    /\ IF IsRegistered(providerName)
       THEN /\ config' = [config EXCEPT !.primaryProvider = providerName]
            /\ thrown' = ""
       ELSE /\ config' = config
            /\ thrown' = "Provider not found"
    /\ UNCHANGED embVars
    /\ UNCHANGED <<now, providers, healthStatus, lastHealthCheck, aiAttached, req, hs,
                   liveLog>>

\* Variant of shutdown: the health values are cleared, the timestamps are kept.
ShutdownKeepsTimestamps ==
    /\ Wired
    /\ NoneInFlight
    /\ providers' = <<>>
    /\ healthStatus' = EmptyMap
    /\ lastHealthCheck' = lastHealthCheck
    /\ thrown' = ""
    /\ UNCHANGED embVars
    /\ UNCHANGED <<now, config, aiAttached, req, hs, liveLog>>

\* AIService.shutdown()
Shutdown ==
    /\ Wired
    /\ NoneInFlight
    /\ providers' = <<>>
    /\ healthStatus' = EmptyMap
    /\ lastHealthCheck' = EmptyMap
    /\ thrown' = ""
    /\ UNCHANGED embVars
    /\ UNCHANGED <<now, config, aiAttached, req, hs, liveLog>>

\* EmbeddingService.setAIService(ai)
SetAIService ==
    /\ NoneInFlight
    /\ ~aiAttached
    /\ aiAttached' = TRUE
    /\ thrown' = ""
    /\ UNCHANGED embVars
    /\ UNCHANGED <<now, config, providers, healthStatus, lastHealthCheck, req, hs,
                   liveLog>>

Next ==
    \/ Tick
    \/ \E r \in Reqs, d \in DocLists : GenerateResponse(r, d)
    \/ \E r \in Reqs, d \in DocLists : GenerateSmartResponse(r, d)
    \/ \E r \in Reqs, o \in {"true", "false", "throws"} : HealthReturn(r, o)
    \/ \E r \in Reqs : GenSucceeds(r)
    \/ \E r \in Reqs, e \in GenThrows("ollama") \cup GenThrows("mybot") : GenFails(r, e)
    \/ \E r \in Reqs : WakeUp(r)
    \/ \E r \in Reqs : Return(r)
    \/ GetHealthStatus
    \/ \E o \in {"true", "false", "throws"} : HsReturn(o)
    \/ \E p \in ConfigPatches : UpdateConfig(p)
    \/ \E k \in AddedKeys, n \in CustomNames : AddProvider(k, n)
    \/ \E k \in Keys : SetPrimaryProvider(k)
    \/ Shutdown
    \/ SetAIService

Spec == Init /\ [][Next]_vars

-----------------------------------------------------------------------------
(* Vector search: EmbeddingService.findSimilarDocuments as a function of its
   arguments, called directly and through DatabaseService.vectorSearch. *)

\* defaultAIServiceConfig, with the Ollama provider configured
DefaultConfig ==
    [ primaryProvider     |-> "ollama",
      fallbackEnabled     |-> TRUE,
      retryAttempts       |-> MaxRetry,
      retryDelay          |-> RetryDelay,
      healthCheckInterval |-> Interval,
      ollama              |-> TRUE ]

\* The AIService as constructed, with no operation under way
AIIdle ==
    /\ now = T0
    /\ config = DefaultConfig
    /\ providers = InitializeProviders(DefaultConfig)
    /\ healthStatus = EmptyMap
    /\ lastHealthCheck = EmptyMap
    /\ aiAttached = TRUE
    /\ req = [r \in Reqs |-> IdleReq]
    /\ hs = IdleHs
    /\ liveLog = EmptyMap
    /\ thrown = ""

SearchInit ==
    /\ AIIdle
    /\ prompts = <<>>
    /\ batch = IdleBatch
    /\ fb = IdleFb
    /\ search \in { [IdleSearch EXCEPT !.pc = "ready", !.queryEmb = q, !.docs = d,
                                       !.threshold = t, !.limit = l] :
                    q \in QueryVectors, d \in Candidates, t \in Thresholds, l \in Limits }

\* embeddingService.findSimilarDocuments(queryEmb, docs, threshold, limit)
FindSimilar ==
    LET found == FindSimilarDocuments(search.queryEmb, search.docs,
                                      search.threshold, search.limit)
    IN  /\ search.pc = "ready"
        /\ search' = [search EXCEPT !.pc = "found", !.embedded = TRUE,
                                    !.threw = found.threw, !.message = found.message,
                                    !.results = found.results]
        /\ UNCHANGED <<aiVars, prompts, batch, fb>>

\* Variant of the failure test: a failed query embedding is not a failure.
SearchFailedOnThrowOnly(embedded, found) == found.threw

\* vectorSearch fails when generateEmbedding threw or findSimilarDocuments did.
SearchFailed(embedded, found) == ~embedded \/ found.threw

\* databaseService.vectorSearch(query, threshold, limit): generateEmbedding
\* gives the query embedding or throws; getAllPromptsWithEmbeddings gives the
\* documents whose embedding has an element 0, which are the documents the
\* first filter of findSimilarDocuments keeps; every throw is caught and
\* thrown again as "Failed to perform vector search".
VectorSearch(embedded) ==
    LET found == FindSimilarDocuments(search.queryEmb, search.docs,
                                      search.threshold, search.limit)
        failed == SearchFailed(embedded, found)
    IN  /\ search.pc = "ready"
        /\ search' = [search EXCEPT
                        !.pc = "searched",
                        !.embedded = embedded,
                        !.threw = failed,
                        !.message = IF failed THEN "Failed to perform vector search" ELSE "",
                        !.results = IF failed THEN <<>> ELSE found.results]
        /\ UNCHANGED <<aiVars, prompts, batch, fb>>

SearchNext ==
    \/ FindSimilar
    \/ \E e \in BOOLEAN : VectorSearch(e)

SearchSpec == SearchInit /\ [][SearchNext]_vars

-----------------------------------------------------------------------------
(* The prompts collection: the plain save, the save with embedding, and the
   migration.  Operations are issued one at a time. *)

StoreInit ==
    /\ AIIdle
    /\ EmbIdle

\* { embedding: { $exists: false } } or { embedding: { $size: 0 } }
WithoutEmbedding(doc) == ~doc.embedding.has \/ doc.embedding.vec = <<>>

\* POST /prompt: the document is inserted without an embedding.
SavePrompt ==
    /\ batch.pc = "idle"
    /\ Len(prompts) < MaxPrompts
    /\ prompts' = Append(prompts, [embedding |-> NoEmbedding])
    /\ UNCHANGED <<aiVars, search, batch, fb>>

\* savePromptWithEmbedding(prompt, response): the document is inserted with
\* what generateEmbedding returned; nothing is inserted when it threw.
SavePromptWithEmbedding(outcome) ==
    /\ batch.pc = "idle"
    /\ Len(prompts) < MaxPrompts
    /\ prompts' = IF outcome.ok
                  THEN Append(prompts, [embedding |-> Embedding(outcome.embedding)])
                  ELSE prompts
    /\ UNCHANGED <<aiVars, search, batch, fb>>

RECURSIVE UpdateLoop(_)

\* The update loop from batch.i on, up to the first updateOne it awaits or
\* to the return
UpdateLoop(b) ==
    IF b.i > Len(b.docs) THEN [b EXCEPT !.pc = "done"]
    ELSE LET valid == IsValidEmbedding(b.out[b.i])
             b1    == [b EXCEPT !.validated =
                                    Append(@, [vec |-> b.out[b.i], valid |-> valid])]
         IN  IF valid THEN [b1 EXCEPT !.pc = "updating"]
             ELSE UpdateLoop([b1 EXCEPT !.i = b.i + 1])

\* updatePromptsWithEmbeddings(): the documents without embedding are read;
\* with none of them it returns 0, else batchGenerateEmbeddings starts the
\* first embedding request.
UpdatePromptsWithEmbeddings ==
    LET missing == SelectSeq([k \in 1..Len(prompts) |-> k],
                             LAMBDA k : WithoutEmbedding(prompts[k]))
    IN  /\ batch.pc = "idle"
        /\ batch' = IF missing = <<>>
                    THEN [IdleBatch EXCEPT !.pc = "done"]
                    ELSE [IdleBatch EXCEPT
                            !.pc = "embedding",
                            !.docs = missing,
                            !.log = <<[event |-> "start", text |-> missing[1]]>>]
        /\ UNCHANGED <<aiVars, search, prompts, fb>>

\* The awaited generateEmbedding settles in batchGenerateEmbeddings: its
\* embedding, or [] when it threw, is pushed; the next request starts, or
\* the batch returns and the update loop begins.
EmbeddingReturns(outcome) ==
    LET k  == Len(batch.out) + 1
        b1 == [batch EXCEPT
                 !.out = Append(@, IF outcome.ok THEN outcome.embedding ELSE <<>>),
                 !.failed = Append(@, ~outcome.ok),
                 !.log = Append(@, [event |-> "end", text |-> batch.docs[k]])]
    IN  /\ batch.pc = "embedding"
        /\ batch' = IF k < Len(batch.docs)
                    THEN [b1 EXCEPT
                            !.log = Append(@, [event |-> "start",
                                               text  |-> batch.docs[k + 1]])]
                    ELSE UpdateLoop([b1 EXCEPT !.i = 1])
        /\ UNCHANGED <<aiVars, search, prompts, fb>>

\* The awaited updateOne is done: the document has the embedding.
UpdateOne ==
    /\ batch.pc = "updating"
    /\ prompts' = [prompts EXCEPT
                     ![batch.docs[batch.i]].embedding = Embedding(batch.out[batch.i])]
    /\ batch' = UpdateLoop([batch EXCEPT !.updatedCount = @ + 1, !.i = @ + 1])
    /\ UNCHANGED <<aiVars, search, fb>>

\* updatePromptsWithEmbeddings has returned updatedCount.
BatchReturn ==
    /\ batch.pc = "done"
    /\ batch' = IdleBatch
    /\ UNCHANGED <<aiVars, search, prompts, fb>>

StoreNext ==
    \/ SavePrompt
    \/ \E o \in EmbeddingOutcomes : SavePromptWithEmbedding(o)
    \/ UpdatePromptsWithEmbeddings
    \/ \E o \in EmbeddingOutcomes : EmbeddingReturns(o)
    \/ UpdateOne
    \/ BatchReturn

StoreSpec == StoreInit /\ [][StoreNext]_vars

-----------------------------------------------------------------------------
(* FallbackResponseGenerator.generateFallbackResponse as a function of its
   arguments *)

\* The queries: "how", "What", "pizza", "best", "how best", "nine char",
\* "ten chars!", "how to cook rice", "better pasta", "what is best",
\* "tell me more"
Queries ==
    { <<"h", "o", "w">>,
      <<"W", "h", "a", "t">>,
      <<"p", "i", "z", "z", "a">>,
      <<"b", "e", "s", "t">>,
      <<"h", "o", "w", " ", "b", "e", "s", "t">>,
      <<"n", "i", "n", "e", " ", "c", "h", "a", "r">>,
      <<"t", "e", "n", " ", "c", "h", "a", "r", "s", "!">>,
      <<"h", "o", "w", " ", "t", "o", " ", "c", "o", "o", "k", " ", "r", "i", "c", "e">>,
      <<"b", "e", "t", "t", "e", "r", " ", "p", "a", "s", "t", "a">>,
      <<"w", "h", "a", "t", " ", "i", "s", " ", "b", "e", "s", "t">>,
      <<"t", "e", "l", "l", " ", "m", "e", " ", "m", "o", "r", "e">> }

\* similarDocuments, as the list of the matches' similarities in percent:
\* findSimilarDocuments hands them on in non-increasing order
Similarities == {0, 40, 50, 75, 80, 95, 100}

RECURSIVE RankedLists(_)
RankedLists(n) ==
    IF n = 0 THEN {<<>>}
    ELSE LET shorter == RankedLists(n - 1)
             longest == {t \in shorter : Len(t) = n - 1}
         IN  shorter \cup
               UNION { {Append(s, x) : x \in {y \in Similarities :
                                                s = <<>> \/ y <= s[Len(s)]}} :
                       s \in longest }

Matches == RankedLists(MaxMatches)

FallbackInit ==
    /\ AIIdle
    /\ search = IdleSearch
    /\ prompts = <<>>
    /\ batch = IdleBatch
    /\ fb \in {[IdleFb EXCEPT !.pc = "ready", !.query = q, !.docs = d] :
                 q \in Queries, d \in Matches}

\* fallbackGenerator.generateFallbackResponse(query, similarDocuments)
GenerateFallback ==
    /\ fb.pc = "ready"
    /\ fb' = [fb EXCEPT !.pc = "done",
                        !.response = GenerateFallbackResponse(fb.query, fb.docs)]
    /\ UNCHANGED <<aiVars, search, prompts, batch>>

FallbackNext == GenerateFallback

FallbackSpec == FallbackInit /\ [][FallbackNext]_vars

-----------------------------------------------------------------------------
(* Properties of AIService.generateResponse.  q.trace holds one entry per
   finished attempt: how the attempt learnt the provider's health, whether it
   made the generation call, and the error it ended with. *)

Unhealthy == {"cached_bad", "live_bad", "live_throw"}
Healthy == {"cached_ok", "live_ok"}

\* The generation calls made so far by the call r
GenCalls(q) ==
    Cardinality({i \in 1..Len(q.trace) : q.trace[i].gen # "none"})
        + (IF q.pc = "gen_wait" THEN 1 ELSE 0)

\* The call r of AIService.generateResponse has ended.
Ended(q) == q.pc = "done" /\ q.entered

\* Every attempt made the generation call, which failed with a retryable error.
AllGenRetryable(q) ==
    \A i \in 1..Len(q.trace) : q.trace[i].gen = "failed" /\ q.trace[i].retryable

\* C1: with fallback enabled, a call whose every attempt passed the health
\* check and failed in generation with a retryable error made exactly
\* retryAttempts + 1 generation attempts, and returned source "fallback" with
\* metadata.retryCount = retryAttempts.
C1_RetryableExhaustion ==
    \A r \in Reqs :
        LET q == req[r]
        IN  /\ GenCalls(q) <= config.retryAttempts + 1
            /\ (Ended(q) /\ config.fallbackEnabled /\ AllGenRetryable(q))
                 => /\ Len(q.trace) = config.retryAttempts + 1
                    /\ GenCalls(q) = config.retryAttempts + 1
                    /\ q.result.source = "fallback"
                    /\ q.result.metadata.retryCount = config.retryAttempts

C1_Witness ==
    \E r \in Reqs :
        LET q == req[r]
        IN  /\ Ended(q) /\ config.fallbackEnabled /\ AllGenRetryable(q)
            /\ config.retryAttempts = 2
            /\ Len(q.trace) = 3
            /\ q.result.source = "fallback"

\* C2: a generation attempt that fails with a non-retryable error is the last
\* attempt of its call: the call ends at once, without a sleep after it, in
\* the fallback response (in the final throw when fallback is disabled); such
\* a failure of the first attempt leaves one attempt in total.
C2_NonRetryableStops ==
    \A r \in Reqs :
        LET q == req[r]
        IN  \A i \in 1..Len(q.trace) :
                (q.trace[i].gen = "failed" /\ ~q.trace[i].retryable)
                    => /\ i = Len(q.trace)
                       /\ q.pc = "done"
                       /\ Len(q.sleeps) = i - 1
                       /\ GenCalls(q) <= i
                       /\ q.result.source =
                              IF config.fallbackEnabled THEN "fallback" ELSE "error"

C2_Witness ==
    \E r \in Reqs :
        LET q == req[r]
        IN  /\ Ended(q)
            /\ config.retryAttempts = 2
            /\ Len(q.trace) = 1
            /\ q.trace[1].gen = "failed" /\ ~q.trace[1].retryable
            /\ q.sleeps = <<>>
            /\ q.result.source = "fallback"

C5_HealthGate ==
    \A r \in Reqs :
        LET q == req[r]
        IN  /\ \A i \in 1..Len(q.trace) :
                 /\ q.trace[i].gen # "none" => q.trace[i].health \in Healthy
                 /\ q.trace[i].health \in Unhealthy
                      => q.trace[i].gen = "none" /\ q.trace[i].retryable
            /\ q.pc = "gen_wait"
                 => q.health \in Healthy /\ MapGet(healthStatus, q.cur, FALSE)
            /\ (Ended(q) /\ \A i \in 1..Len(q.trace) : q.trace[i].health \in Unhealthy)
                 => /\ GenCalls(q) = 0
                    /\ config.fallbackEnabled => q.result.source = "fallback"

\* a call that ran wholly within the window of an unhealthy check made before it
C5_Witness ==
    \E r \in Reqs :
        LET q == req[r]
        IN  /\ Ended(q)
            /\ Len(q.trace) >= 2
            /\ \A i \in 1..Len(q.trace) : q.trace[i].health = "cached_bad"
            /\ GenCalls(q) = 0
            /\ q.result.source = "fallback"

\* C6 as stated: a live healthCheck is awaited only for a provider whose cache
\* entry is stale: no live check starts less than healthCheckInterval after
\* the time recorded by the last live check of that provider.
C6_NoLiveCheckInWindow ==
    /\ \A r \in Reqs :
          LET q == req[r]
          IN  (q.pc = "hc_wait" /\ q.cur \in DOMAIN liveLog)
                => q.hcNow - liveLog[q.cur] >= config.healthCheckInterval
    /\ (hs.pc = "wait" /\ Head(hs.rest) \in DOMAIN liveLog)
          => hs.hcNow - liveLog[Head(hs.rest)] >= config.healthCheckInterval

\* C6 as amended: the cache entry of a provider, while shutdown has not
\* cleared it, holds the time recorded by the provider's last live check; no
\* live check of a provider with an entry starts less than
\* healthCheckInterval after that time, and a consultation in that window
\* returns the recorded value.
C6_LiveOnlyWhenStale ==
    /\ \A n \in DOMAIN lastHealthCheck :
          /\ n \in DOMAIN liveLog /\ lastHealthCheck[n] = liveLog[n]
          /\ n \in DOMAIN healthStatus
    /\ \A r \in Reqs :
          LET q == req[r]
          IN  /\ (q.pc = "hc_wait" /\ q.cur \in DOMAIN lastHealthCheck)
                   => q.hcNow - liveLog[q.cur] >= config.healthCheckInterval
              /\ (q.pc = "gen_wait" /\ q.health = "cached_ok")
                   => /\ q.cur \in DOMAIN lastHealthCheck
                      /\ q.hcNow - liveLog[q.cur] < config.healthCheckInterval
                      /\ healthStatus[q.cur]
    /\ (hs.pc = "wait" /\ Head(hs.rest) \in DOMAIN lastHealthCheck)
          => hs.hcNow - liveLog[Head(hs.rest)] >= config.healthCheckInterval

\* a consultation after the recorded time and within the window, answered
\* from the cache
C6_Witness ==
    \E r \in Reqs :
        LET q == req[r]
        IN  /\ q.pc = "gen_wait" /\ q.health = "cached_ok"
            /\ q.cur \in DOMAIN lastHealthCheck
            /\ q.hcNow > liveLog[q.cur]
            /\ Len(q.trace) >= 1

\* C7: the i-th sleep of a call lasts retryDelay * 2^(i-1); it follows the
\* i-th failed attempt, which is retryable and is not the last allowed one;
\* no sleep follows the last attempt: a call that ended after k attempts
\* slept k - 1 times.
C7_Backoff ==
    \A r \in Reqs :
        LET q == req[r]
        IN  q.entered =>
              /\ \A i \in 1..Len(q.sleeps) :
                    /\ q.sleeps[i] = config.retryDelay * (2 ^ (i - 1))
                    /\ q.trace[i].gen # "ok" /\ q.trace[i].retryable
                    /\ i - 1 < config.retryAttempts
              /\ \A i \in 1..Len(q.trace) :
                    (q.trace[i].gen # "ok" /\ q.trace[i].retryable
                        /\ i - 1 < config.retryAttempts)
                      => Len(q.sleeps) >= i
              /\ q.pc \in {"hc_wait", "gen_wait", "sleep"} => Len(q.sleeps) = Len(q.trace)
              /\ q.pc = "sleep" => q.wake <= now + q.sleeps[Len(q.sleeps)]
              /\ q.pc = "done" => Len(q.sleeps) = Len(q.trace) - 1

C7_Witness ==
    \E r \in Reqs :
        LET q == req[r]
        IN  /\ Ended(q)
            /\ Len(q.trace) = 3
            /\ q.sleeps = <<config.retryDelay, 2 * config.retryDelay>>

\* C8: every response returned to a caller has: source "ai" implies no
\* fallbackReason; source "fallback" implies a fallbackReason and a retryCount
\* equal to the number of retries made in the request.
C8_ResponseShape ==
    \A r \in Reqs :
        LET q == req[r]
        IN  q.pc = "done" =>
              /\ q.result.source = "ai"
                   => "fallbackReason" \notin DOMAIN q.result.metadata
              /\ q.result.source = "fallback"
                   => /\ "fallbackReason" \in DOMAIN q.result.metadata
                      /\ "retryCount" \in DOMAIN q.result.metadata
                      /\ q.result.metadata.retryCount = Len(q.sleeps)

\* C9 as stated: the fallbackReason is the message of the last recorded error,
\* and is "AI provider unavailable" exactly when no error was recorded; the
\* content is synthesized from the matches given to the call.
C9_ReasonIsLastMessage ==
    \A r \in Reqs :
        LET q == req[r]
        IN  (Ended(q) /\ q.result.source = "fallback")
              => /\ q.lastError # NoError
                      => q.result.metadata.fallbackReason = q.lastError.message
                 /\ q.result.metadata.fallbackReason = <<"AI", "provider", "unavailable">>
                      <=> q.lastError = NoError
                 /\ q.result.content = GenerateFallbackResponse(Query, q.docs).content

\* C9 as amended: the fallbackReason is the message of the last attempt's
\* error when that message is not empty, and "AI provider unavailable" when
\* no error was recorded or its message is empty; the content is synthesized
\* from the matches given to the call.
C9_ReasonIsLastNonEmptyMessage ==
    \A r \in Reqs :
        LET q    == req[r]
            last == IF q.trace = <<>> THEN <<>> ELSE q.trace[Len(q.trace)].message
        IN  (Ended(q) /\ q.result.source = "fallback")
              => /\ q.result.metadata.fallbackReason =
                        IF last # <<>> THEN last ELSE <<"AI", "provider", "unavailable">>
                 /\ q.result.content.query = Query
                 /\ q.result.content.topResults = Take(q.docs, 5)

\* a fallback after two attempts, whose reason is the second error's message
C9_Witness ==
    \E r \in Reqs :
        LET q == req[r]
        IN  /\ Ended(q) /\ q.result.source = "fallback"
            /\ Len(q.trace) = 2
            /\ q.trace[1].message # q.trace[2].message
            /\ q.trace[2].message # <<>>
            /\ q.result.metadata.fallbackReason = q.trace[2].message
            /\ q.docs # <<>>

\* C10: setPrimaryProvider(name) throws when name is not registered and then
\* changes nothing; when name is registered it sets config.primaryProvider to
\* name and changes nothing else.
C10_SetPrimaryProvider ==
    [][ \A k \in Keys :
          SetPrimaryProvider(k)
            => /\ IF RegHas(providers, k)
                  THEN /\ thrown' = ""
                       /\ config' = [config EXCEPT !.primaryProvider = k]
                  ELSE /\ thrown' # ""
                       /\ config' = config
               /\ providers' = providers
               /\ healthStatus' = healthStatus
               /\ lastHealthCheck' = lastHealthCheck ]_vars

\* setPrimaryProvider has thrown for an unregistered name
C10_Witness ==
    /\ thrown = "Provider not found"
    /\ ~RegHas(providers, "custom")
    /\ config.primaryProvider = "ollama"
    /\ RegHas(providers, "ollama")

-----------------------------------------------------------------------------
(* Properties of the vector search.  A call that has returned holds its list
   in search.results; each entry names its candidate by its place in docs. *)

\* The search call has returned a list.
Returned == search.pc \in {"found", "searched"} /\ ~search.threw

\* The candidates that have an embedding and reach the threshold
Qualifying ==
    { i \in 1..Len(search.docs) :
        /\ HasEmbedding(search.docs[i])
        /\ Len(search.docs[i].vec) = Len(search.queryEmb)
        /\ CalculateSimilarity(search.queryEmb, search.docs[i].vec) >= search.threshold }

\* The candidates whose embedding has another dimension than the query's
Mismatching ==
    { i \in 1..Len(search.docs) :
        HasEmbedding(search.docs[i]) /\ Len(search.docs[i].vec) # Len(search.queryEmb) }

\* C11: findSimilarDocuments never returns more than limit results (none for
\* a limit below one), whatever the query vector, the candidates, the
\* threshold and the limit.
C11_AtMostLimit ==
    Returned => Len(search.results) <= (IF search.limit > 0 THEN search.limit ELSE 0)

\* C12: every returned result names a candidate that has a non-empty
\* embedding and whose similarity to the query vector, which the result
\* carries, is at least the threshold; when no candidate has an embedding the
\* call returns the empty list and throws nothing.
C12_ResultsQualify ==
    /\ Returned =>
          \A k \in 1..Len(search.results) :
              LET r == search.results[k]
              IN  /\ r.document \in 1..Len(search.docs)
                  /\ search.docs[r.document].has
                  /\ search.docs[r.document].vec # <<>>
                  /\ r.similarity =
                         CalculateSimilarity(search.queryEmb, search.docs[r.document].vec)
                  /\ r.similarity >= search.threshold
    /\ (search.pc \in {"found", "searched"} /\ search.embedded
            /\ \A i \in 1..Len(search.docs) : ~HasEmbedding(search.docs[i]))
          => ~search.threw /\ search.results = <<>>

\* a returned list next to a candidate below the threshold and one without
\* embedding
C12_Witness ==
    /\ Returned
    /\ search.results # <<>>
    /\ search.threshold = 70
    /\ \E i \in 1..Len(search.docs) :
          /\ HasEmbedding(search.docs[i])
          /\ CalculateSimilarity(search.queryEmb, search.docs[i].vec) = 60
    /\ \E i \in 1..Len(search.docs) : ~search.docs[i].has

\* C13: the returned list is in non-increasing order of similarity, entries
\* of equal similarity in the order of the input; it is a head of that
\* ordering of the qualifying candidates: an omitted qualifying candidate has
\* no higher similarity than a returned one and, at equal similarity, comes
\* later in the input; for a limit of zero or more the list has
\* min(limit, number of qualifying candidates) entries.
C13_SortedPrefix ==
    Returned =>
      LET res    == search.results
          Sim(i) == CalculateSimilarity(search.queryEmb, search.docs[i].vec)
          kept   == {res[k].document : k \in 1..Len(res)}
      IN  /\ \A k \in 1..Len(res) - 1 :
                \/ res[k].similarity > res[k + 1].similarity
                \/ /\ res[k].similarity = res[k + 1].similarity
                   /\ res[k].document < res[k + 1].document
          /\ kept \subseteq Qualifying
          /\ Cardinality(kept) = Len(res)
          /\ \A o \in Qualifying \ kept, i \in kept :
                \/ Sim(o) < Sim(i)
                \/ Sim(o) = Sim(i) /\ o > i
          /\ search.limit >= 0
               => Len(res) = (IF search.limit < Cardinality(Qualifying)
                              THEN search.limit ELSE Cardinality(Qualifying))

\* three candidates, the second and third of equal similarity, cut to two:
\* the higher one first, then the earlier of the equal ones
C13_Witness ==
    /\ search.pc = "found" /\ ~search.threw
    /\ search.limit = 2
    /\ Len(search.docs) = 3
    /\ Qualifying = {1, 2, 3}
    /\ search.docs[1].vec = <<3, 4>>
    /\ search.docs[2].vec = <<1, 0>>
    /\ search.docs[3].vec = <<1, 0>>
    /\ search.queryEmb = <<1, 0>>
    /\ search.results = << [document |-> 2, similarity |-> 100],
                           [document |-> 3, similarity |-> 100] >>

\* the search with the candidates of another dimension left out
SearchWithoutMismatching ==
    FindSimilarDocuments(
        search.queryEmb,
        [i \in 1..Len(search.docs) |->
            IF i \in Mismatching THEN NoEmbedding ELSE search.docs[i]],
        search.threshold, search.limit)

\* C14: a candidate whose embedding has another dimension than the query
\* vector is skipped: a search whose query embedding was obtained throws
\* nothing and returns the results among the other candidates.
C14_MismatchSkipped ==
    (search.pc \in {"found", "searched"} /\ search.embedded)
        => /\ ~search.threw
           /\ search.results = SearchWithoutMismatching.results

-----------------------------------------------------------------------------
(* Properties of the provider errors *)

\* The classification of a failure by its cause
ExpectedType(cause) ==
    CASE cause \in {"refused", "dns"}      -> "network"
      [] cause = "timeout"                 -> "timeout"
      [] cause \in {"http401", "http403"}  -> "auth"
      [] cause = "http429"                 -> "rate_limit"
      [] cause = "http500"                 -> "model_error"
      [] OTHER                             -> "unknown"

RetryableTypes == {"network", "timeout", "rate_limit", "model_error"}

\* C15: a failed generation request of OllamaProvider surfaces an error
\* classified by its cause: connection refused or DNS failure gives network,
\* a timeout gives timeout, HTTP 401/403 gives auth, HTTP 429 gives
\* rate_limit, HTTP 500 and above gives model_error, anything else gives
\* unknown; network, timeout, rate_limit and model_error are retryable, auth
\* and unknown are not.
C15_Classification ==
    \A r \in Reqs :
        \A i \in 1..Len(req[r].trace) :
            LET t == req[r].trace[i]
            IN  (t.gen = "failed" /\ t.cause # "")
                    => /\ t.type = ExpectedType(t.cause)
                       /\ t.retryable <=> (t.type \in RetryableTypes)

-----------------------------------------------------------------------------
(* Properties of the embeddings generated and stored *)

\* C16: batchGenerateEmbeddings issues its requests one at a time in the
\* order of the texts (a request starts after the one before it has ended),
\* goes on after a failure, and returns a list as long as texts whose k-th
\* entry is the embedding generated for the k-th text, and is the empty
\* vector exactly when that generation failed.
C16_BatchResult ==
    LET n == Len(batch.out)
    IN  /\ Len(batch.failed) = n
        /\ batch.pc \in {"updating", "done"} => n = Len(batch.docs)
        /\ batch.pc = "embedding" => Len(batch.log) = 2 * n + 1
        /\ \A k \in 1..Len(batch.log) :
              batch.log[k] = [ event |-> IF k % 2 = 1 THEN "start" ELSE "end",
                               text  |-> batch.docs[(k + 1) \div 2] ]
        /\ \A k \in 1..n : batch.failed[k] <=> batch.out[k] = <<>>

\* C17: isValidEmbedding(vector) is true exactly when the vector has
\* EMBEDDING_DIMENSIONS elements and every element is a finite number.
C17_ValidIffFinite ==
    \A k \in 1..Len(batch.validated) :
        LET vec == batch.validated[k].vec
        IN  batch.validated[k].valid
                <=> /\ Len(vec) = EMBEDDING_DIMENSIONS
                    /\ \A i \in 1..Len(vec) : vec[i].typeof = "number" /\ vec[i].finite

\* C18: every stored document that has an embedding has one of exactly
\* EMBEDDING_DIMENSIONS numeric components, after any sequence of saves and
\* migrations.
C18_StoredDimension ==
    \A k \in 1..Len(prompts) :
        prompts[k].embedding.has
            => /\ Len(prompts[k].embedding.vec) = EMBEDDING_DIMENSIONS
               /\ \A i \in 1..Len(prompts[k].embedding.vec) :
                     prompts[k].embedding.vec[i].typeof = "number"

-----------------------------------------------------------------------------
(* Properties of the fallback response for no matches *)

\* generateFallbackResponse(query, []) has returned.
NoMatchesDone == fb.pc = "done" /\ fb.docs = <<>>

\* C19: for every query, generateFallbackResponse(query, []) returns a
\* response whose confidence is 0.1 and whose content holds the text of the
\* query as given.
C19_NoResultsResponse ==
    NoMatchesDone
        => /\ fb.response.metadata.confidence = Frac(1, 10)
           /\ fb.response.content.kind = "no_results"
           /\ fb.response.content.query = fb.query
           /\ fb.response.metadata.sourceCount = 0

\* the response for the query "What", in its own spelling
C19_Witness ==
    /\ NoMatchesDone
    /\ fb.query = <<"W", "h", "a", "t">>
    /\ fb.response.content.query = <<"W", "h", "a", "t">>
    /\ fb.response.metadata.confidence = Frac(1, 10)

\* C20: for no matches, the suggestions hold the four fixed suggestions, the
\* interrogative suggestion when the query contains "how" or "what", and the
\* short-query suggestion when the query is shorter than 10 characters, in
\* every combination of the two conditions.
C20_Suggestions ==
    NoMatchesDone =>
      LET given == {fb.response.content.suggestions[k] :
                      k \in 1..Len(fb.response.content.suggestions)}
          lower == ToLowerCase(fb.query)
      IN  /\ { "Try using different keywords or synonyms",
               "Make your question more specific",
               "Break complex questions into smaller parts",
               "Check for spelling errors" } \subseteq given
          /\ (StringIncludes(lower, <<"h", "o", "w">>)
                \/ StringIncludes(lower, <<"w", "h", "a", "t">>))
               => "Try rephrasing as a declarative statement" \in given
          /\ Len(fb.query) < 10
               => "Provide more context in your question" \in given

-----------------------------------------------------------------------------
(* Properties of the fallback response for a non-empty list of matches *)

\* generateFallbackResponse(query, matches) has returned, for matches given.
MatchesDone == fb.pc = "done" /\ fb.docs # <<>>

\* how often the match at place i is named in a part of the content
Shown(part, i) == Cardinality({k \in 1..Len(part) : part[k] = i})

FormulaConfidence(sims) ==
    LET n     == Len(sims)
        top   == CHOOSE x \in {sims[i] : i \in 1..n} : \A i \in 1..n : sims[i] <= x
        count == IF n < 5 THEN n ELSE 5
        \* 0.3 + 0.4 ((avg + top) / 2) + 0.1 (count / 5) - penalty, times 500 n
        value == 150 * n + SumSimilarity(sims) + n * top + 10 * n * count
                   - (IF top < 50 THEN 150 * n ELSE 0)
    IN  IF value < 50 * n THEN Frac(50 * n, 500 * n)
        ELSE IF value > 425 * n THEN Frac(425 * n, 500 * n)
        ELSE Frac(value, 500 * n)

\* C22: for a non-empty list of matches the confidence is
\* clamp(0.1, 0.85, 0.3 + 0.4 ((avgSim + topSim) / 2) + 0.1 (min(count, 5) / 5)
\* - (0.3 if topSim < 0.5 else 0)); it lies in [0.1, 0.85]; and it is no
\* lower for the list in which one match has a higher similarity and the
\* others are as they were.
C22_Confidence ==
    MatchesDone =>
      LET conf == fb.response.metadata.confidence
      IN  /\ FracEq(conf, FormulaConfidence(fb.docs))
          /\ FracLeq(Frac(10, 100), conf) /\ FracLeq(conf, Frac(85, 100))
          /\ \A i \in 1..Len(fb.docs) :
                \A higher \in {x \in Similarities : x > fb.docs[i]} :
                    LET raised == [fb.docs EXCEPT ![i] = higher]
                    IN  FracLeq(conf,
                                CalculateConfidence(raised,
                                                    CalculateAverageSimilarity(raised)))

\* two matches at 0.4: 0.3 + 0.16 + 0.04 - 0.3 = 0.2, and raising one of
\* them to 0.5 lifts the penalty
C22_Witness ==
    /\ MatchesDone
    /\ fb.docs = <<40, 40>>
    /\ FracEq(fb.response.metadata.confidence, Frac(20, 100))
    /\ FracEq(CalculateConfidence(<<50, 40>>, CalculateAverageSimilarity(<<50, 40>>)),
              Frac(53, 100))

-----------------------------------------------------------------------------
(* The health cache: lifetime of an entry *)

\* The step ends a live probe of provider `name`, awaited by a request or by
\* getHealthStatus, whose checkProviderHealth read the clock at `t`.
ProbeSettles(name, t) ==
    \/ \E r \in Reqs : /\ req[r].pc = "hc_wait" /\ req[r].cur = name /\ req[r].hcNow = t
                        /\ req'[r].pc # "hc_wait"
    \/ /\ hs.pc = "wait" /\ Head(hs.rest) = name /\ hs.hcNow = t
       /\ hs' # hs

\* The entry of `name` is the same before and after the step.
EntryKept(name) ==
    /\ name \in DOMAIN healthStatus' /\ name \in DOMAIN lastHealthCheck'
    /\ healthStatus'[name] = healthStatus[name]
    /\ lastHealthCheck'[name] = lastHealthCheck[name]

\* The step is the end of a health check of `name`: value and timestamp are
\* both written, the timestamp being the one the check read.
EntryWrittenByCheck(name) ==
    /\ name \in DOMAIN healthStatus' /\ name \in DOMAIN lastHealthCheck'
    /\ ProbeSettles(name, lastHealthCheck'[name])

\* The step clears the registry and the whole cache, as shutdown() does.
CacheCleared ==
    /\ providers' = <<>>
    /\ healthStatus' = EmptyMap
    /\ lastHealthCheck' = EmptyMap

\* C23 (as stated): an entry of the health cache, once it exists, is never
\* deleted: each step keeps it or overwrites value and timestamp together as
\* the result of a health check.
C23_NeverDeleted ==
    [][\A name \in DOMAIN healthStatus \cup DOMAIN lastHealthCheck :
          EntryKept(name) \/ EntryWrittenByCheck(name)]_vars

\* C23 (amended): value and timestamp of a provider exist together; each step
\* keeps an entry, or overwrites its value and timestamp together as the result
\* of a health check, or is shutdown(), which deletes all entries of both maps
\* at once.
C23_DeletedOnlyByShutdown ==
    /\ [](DOMAIN healthStatus = DOMAIN lastHealthCheck)
    /\ [][\A name \in DOMAIN healthStatus \cup DOMAIN lastHealthCheck :
             EntryKept(name) \/ EntryWrittenByCheck(name) \/ CacheCleared]_vars

\* C23 witness: within one request a first live check recorded "healthy", and
\* a later live check, made when that entry was stale, overwrote the entry
\* with "unhealthy" and its own, later time.
C23_Witness ==
    LET t == req[1].trace
    IN  /\ Len(t) = 3
        /\ t[1].health = "live_ok"
        /\ t[3].health = "live_bad"
        /\ "ollama" \in DOMAIN healthStatus
        /\ healthStatus["ollama"] = FALSE
        /\ lastHealthCheck["ollama"] > T0
        /\ liveLog["ollama"] = lastHealthCheck["ollama"]

-----------------------------------------------------------------------------
(* Termination of AIService.generateResponse with the Ollama provider.  The
   provider answers when it likes, or never; what the code itself guarantees
   are its timers: AbortSignal.timeout in healthCheck, the abort timer of
   makeRequest while it is armed, and the setTimeout of sleep.  makeRequest
   clears its abort timer as soon as fetch resolves, that is when the status
   line and the headers of the answer have arrived, and reads the body
   afterwards. *)

\* The failures of makeRequest while fetch is pending, and those after the
\* response has arrived.
FetchFailures == {"refused", "dns", "timeout"}
ResponseFailures == OllamaFailures \ FetchFailures

\* The error that reaches AIService for the failure `cause`
OllamaThrows(cause) == WithCause(HandleError(OllamaError(cause)), cause)

\* The configurations of the termination model: Ollama is configured and primary.
LiveConfigs == {c \in Configs : c.ollama /\ c.primaryProvider = "ollama"}

LiveInit ==
    /\ now = T0
    /\ config \in LiveConfigs
    /\ providers = InitializeProviders(config)
    /\ healthStatus = EmptyMap
    /\ lastHealthCheck = EmptyMap
    /\ aiAttached = TRUE
    /\ req = [r \in Reqs |-> IdleReq]
    /\ hs = IdleHs
    /\ liveLog = EmptyMap
    /\ thrown = ""
    /\ EmbIdle

\* generateResponse is called, as long as the clock of the model has not run out.
Call(r, d) ==
    /\ now <= MaxTime
    /\ GenerateResponse(r, d)

\* Time passes while a request sleeps.
Elapse ==
    /\ \E r \in Reqs : req[r].pc = "sleep" /\ now < req[r].wake
    /\ now' = now + 1
    /\ UNCHANGED embVars
    /\ UNCHANGED <<config, providers, healthStatus, lastHealthCheck, aiAttached,
                   req, hs, liveLog, thrown>>

\* makeRequest: fetch is pending and rejects (connection refused, name not
\* resolved), or the abort timer fires: "Request timeout".
FetchFails(r, cause) ==
    /\ cause \in FetchFailures
    /\ req[r].cur = "ollama"
    /\ GenFails(r, OllamaThrows(cause))

\* makeRequest: fetch resolves with the response; clearTimeout(timeoutId).
\* The body is still to be read.
ResponseArrives(r) ==
    /\ req[r].pc = "gen_wait"
    /\ req[r].cur = "ollama"
    /\ req' = [req EXCEPT ![r].pc = "body_wait"]
    /\ UNCHANGED embVars
    /\ UNCHANGED <<now, config, providers, healthStatus, lastHealthCheck, aiAttached,
                   hs, liveLog, thrown>>

\* await response.json() resolves with a finished generation.
BodyRead(r) ==
    /\ req[r].pc = "body_wait"
    /\ req' = [req EXCEPT ![r] = Success(req[r])]
    /\ UNCHANGED embVars
    /\ UNCHANGED <<now, config, providers, healthStatus, lastHealthCheck, aiAttached,
                   hs, liveLog, thrown>>

\* The response is not ok (await response.text(), then throw), or its body is
\* not a finished generation.
BodyFails(r, cause) ==
    /\ req[r].pc = "body_wait"
    /\ cause \in ResponseFailures
    /\ req' = [req EXCEPT ![r] = Catch(req[r], OllamaThrows(cause), TRUE)]
    /\ UNCHANGED embVars
    /\ UNCHANGED <<now, config, providers, healthStatus, lastHealthCheck, aiAttached,
                   hs, liveLog, thrown>>

LiveNext ==
    \/ Tick
    \/ Elapse
    \/ \E r \in Reqs, d \in DocLists : Call(r, d)
    \/ \E r \in Reqs, o \in HealthOutcomes("ollama") : HealthReturn(r, o)
    \/ \E r \in Reqs, c \in FetchFailures : FetchFails(r, c)
    \/ \E r \in Reqs : ResponseArrives(r)
    \/ \E r \in Reqs : BodyRead(r)
    \/ \E r \in Reqs, c \in ResponseFailures : BodyFails(r, c)
    \/ \E r \in Reqs : WakeUp(r)
    \/ \E r \in Reqs : Return(r)

\* The timers of the code fire: the 5 s abort of the health probe (healthCheck
\* then returns false), the abort of makeRequest while it is armed, and the
\* timer of sleep.  Nothing is assumed of the provider.
LiveFairness ==
    \A r \in Reqs :
        /\ WF_vars(HealthReturn(r, "false"))
        /\ WF_vars(FetchFails(r, "timeout"))
        /\ WF_vars(Elapse)
        /\ WF_vars(WakeUp(r))

LiveSpec == LiveInit /\ [][LiveNext]_vars /\ LiveFairness

\* A request is under way: entered and not yet at its outcome.
InFlight(r) == req[r].entered /\ req[r].pc # "done"

\* C24: every generateResponse request eventually reaches a terminal outcome
\* (an 'ai' response, a 'fallback' response or a failure), whatever the
\* provider does, by the timeouts of the code alone.
C24_Terminates ==
    \A r \in Reqs : InFlight(r) ~> (req[r].pc = "done")

-----------------------------------------------------------------------------
(* DatabaseService.smartSearch: vectorSearch, then
   EmbeddingService.generateSmartResponse with the matches found. *)

\* The similarities of a list of matches, as generateFallbackResponse reads them
SimilaritiesOf(results) == [i \in 1..Len(results) |-> results[i].similarity]

SmartConfigs == {c \in LiveConfigs : c.retryAttempts < MaxRetry}

SmartInit ==
    /\ now = T0
    /\ config \in SmartConfigs
    /\ providers = InitializeProviders(config)
    /\ healthStatus = EmptyMap
    /\ lastHealthCheck = EmptyMap
    /\ aiAttached \in BOOLEAN
    /\ req = [r \in Reqs |-> IdleReq]
    /\ hs = IdleHs
    /\ liveLog = EmptyMap
    /\ thrown = ""
    /\ prompts = <<>>
    /\ batch = IdleBatch
    /\ fb = IdleFb
    /\ search \in { [IdleSearch EXCEPT !.pc = "ready", !.queryEmb = q, !.docs = d,
                                       !.threshold = t, !.limit = 5] :
                    q \in QueryVectors, d \in SeqsUpTo(DocEmbeddings, 1),
                    t \in {0, 70} }

\* databaseService.smartSearch(query, threshold, limit), up to its first await
\* inside AIService, or to its end.
SmartSearch(r, embedded) ==
    LET found  == FindSimilarDocuments(search.queryEmb, search.docs,
                                       search.threshold, search.limit)
        failed == SearchFailed(embedded, found)
        d      == SimilaritiesOf(found.results)
    IN  /\ search.pc = "ready"
        /\ req[r].pc = "idle"
        /\ search' = [search EXCEPT
                        !.pc = IF failed THEN "answered" ELSE "answering",
                        !.embedded = embedded,
                        !.threw = failed,
                        !.message = IF failed THEN "Failed to perform smart search" ELSE "",
                        !.results = IF failed THEN <<>> ELSE found.results]
        /\ req' = IF failed THEN req
                  ELSE [req EXCEPT ![r] =
                          IF aiAttached
                          THEN Attempt([IdleReq EXCEPT !.entered = TRUE, !.docs = d])
                          ELSE [IdleReq EXCEPT
                                  !.pc = "done",
                                  !.docs = d,
                                  !.result =
                                      [ source   |-> "fallback",
                                        content  |-> <<"AI", "service", "unavailable">>,
                                        metadata |-> [provider |-> "ollama-embedding-only"] ]]]
        /\ UNCHANGED <<now, config, providers, healthStatus, lastHealthCheck, aiAttached,
                       hs, liveLog, thrown>>
        /\ UNCHANGED <<prompts, batch, fb>>

\* generateSmartResponse has settled: smartSearch returns the response, or
\* catches the failure and throws "Failed to perform smart search".
SmartReturn(r) ==
    LET result == req[r].result
        failed == result.source = "error"
    IN  /\ search.pc = "answering"
        /\ req[r].pc = "done"
        /\ search' = [search EXCEPT
                        !.pc = "answered",
                        !.threw = failed,
                        !.message = IF failed THEN "Failed to perform smart search" ELSE "",
                        !.response = IF failed THEN NoResult ELSE result]
        /\ req' = [req EXCEPT ![r] = IdleReq]
        /\ UNCHANGED <<now, config, providers, healthStatus, lastHealthCheck, aiAttached,
                       hs, liveLog, thrown>>
        /\ UNCHANGED <<prompts, batch, fb>>

SmartNext ==
    \/ \E e \in BOOLEAN : VectorSearch(e)
    \/ \E r \in Reqs, e \in BOOLEAN : SmartSearch(r, e)
    \/ \E r \in Reqs, o \in HealthOutcomes("ollama") : HealthReturn(r, o)
    \/ \E r \in Reqs : GenSucceeds(r)
    \/ \E r \in Reqs, e \in GenThrows("ollama") : GenFails(r, e)
    \/ Elapse
    \/ \E r \in Reqs : WakeUp(r)
    \/ \E r \in Reqs : SmartReturn(r)

SmartSpec == SmartInit /\ [][SmartNext]_vars

\* A search call has ended whose query embedding could not be generated.
EmbeddingFailed == search.pc \in {"searched", "answered"} /\ ~search.embedded

\* C25: when the query embedding fails, vectorSearch and smartSearch end as
\* failed operations: no matches and no response are returned, and neither a
\* health check nor a generation call has been made.
C25_EmbeddingFailurePropagates ==
    EmbeddingFailed
        => /\ search.threw
           /\ search.message = IF search.pc = "searched"
                               THEN "Failed to perform vector search"
                               ELSE "Failed to perform smart search"
           /\ search.results = <<>>
           /\ search.response = NoResult
           /\ \A r \in Reqs : ~req[r].entered /\ req[r].trace = <<>>
           /\ liveLog = EmptyMap /\ healthStatus = EmptyMap

\* C25 witness: smartSearch has failed on the query embedding although a
\* stored document matches the query.
C25_Witness ==
    /\ EmbeddingFailed
    /\ search.pc = "answered"
    /\ aiAttached
    /\ FindSimilarDocuments(search.queryEmb, search.docs,
                            search.threshold, search.limit).results # <<>>

-----------------------------------------------------------------------------
(* The test hooks: AIService.testProvider, and DatabaseService.testAIService,
   which POST /test-ai calls.  The locals of a test are kept in the record of
   a request: pc "test_wait" while testProvider awaits the generation, pc
   "tested" with result [source |-> "test", ok |-> ...] when the hook has
   returned its boolean. *)

\* What provider.generateResponse resolves with: OllamaProvider throws on an
\* empty content, another implementation may return it.
Contents(name) == IF name = "ollama" THEN {"text"} ELSE {"", "text"}

TestConfigs == {c \in Configs : c.retryAttempts < MaxRetry}

TestInit ==
    /\ now = T0
    /\ config \in TestConfigs
    /\ providers \in { InitializeProviders(config),
                       RegSet(InitializeProviders(config), "custom", "mybot") }
    /\ healthStatus = EmptyMap
    /\ lastHealthCheck = EmptyMap
    /\ aiAttached \in BOOLEAN
    /\ req = [r \in Reqs |-> IdleReq]
    /\ hs = IdleHs
    /\ liveLog = EmptyMap
    /\ thrown = ""
    /\ EmbIdle

\* The boolean a test hook returns
Tested(q, ok) == [q EXCEPT !.pc = "tested", !.result = [source |-> "test", ok |-> ok]]

\* AIService.testProvider(providerName): throws for a name that is not
\* registered, else calls provider.generateResponse(testQuery, []).
TestProvider(r, providerName) ==
    LET name == RegGet(providers, providerName)
    IN  /\ req[r].pc = "idle"
        /\ IF name = ""
           THEN /\ thrown' = "Provider not found"
                /\ req' = req
           ELSE /\ thrown' = ""
                /\ req' = [req EXCEPT ![r] =
                             [IdleReq EXCEPT !.pc = "test_wait", !.entered = TRUE,
                                             !.cur = name]]
        /\ UNCHANGED embVars
        /\ UNCHANGED <<now, config, providers, healthStatus, lastHealthCheck, aiAttached,
                       hs, liveLog>>

\* The generation of testProvider resolves: return response.content.length > 0
TestGenReturns(r, content) ==
    LET q == req[r]
    IN  /\ q.pc = "test_wait"
        /\ content \in Contents(q.cur)
        /\ req' = [req EXCEPT ![r] =
                     Tested([q EXCEPT !.trace =
                                 Append(@, [ health |-> "none",
                                             gen |-> IF content = "" THEN "empty" ELSE "ok",
                                             retryable |-> FALSE, message |-> <<>>,
                                             type |-> "", cause |-> "" ])],
                            content # "")]
        /\ UNCHANGED embVars
        /\ UNCHANGED <<now, config, providers, healthStatus, lastHealthCheck, aiAttached,
                       hs, liveLog, thrown>>

\* The generation of testProvider rejects: catch (error) { return false }
TestGenFails(r, error) ==
    LET q == req[r]
    IN  /\ q.pc = "test_wait"
        /\ error \in GenThrows(q.cur)
        /\ req' = [req EXCEPT ![r] =
                     Tested([q EXCEPT !.trace =
                                 Append(@, [ health |-> "none", gen |-> "failed",
                                             retryable |-> error.retryable,
                                             message |-> error.message,
                                             type |-> error.type,
                                             cause |-> error.cause ])],
                            FALSE)]
        /\ UNCHANGED embVars
        /\ UNCHANGED <<now, config, providers, healthStatus, lastHealthCheck, aiAttached,
                       hs, liveLog, thrown>>

\* DatabaseService.testAIService(): false without an AI service, else
\* aiService.generateResponse(testQuery, []) is called.
TestAIService(r) ==
    /\ req[r].pc = "idle"
    /\ req' = [req EXCEPT ![r] =
                 IF aiAttached
                 THEN Attempt([IdleReq EXCEPT !.entered = TRUE])
                 ELSE Tested(IdleReq, FALSE)]
    /\ thrown' = ""
    /\ UNCHANGED embVars
    /\ UNCHANGED <<now, config, providers, healthStatus, lastHealthCheck, aiAttached,
                   hs, liveLog>>

\* generateResponse has settled in testAIService:
\* return response.content.length > 0, or catch (error) { return false }.
\* The content of an 'ai' response and of a fallback response is not empty.
TestAIServiceReturn(r) ==
    /\ req[r].pc = "done"
    /\ req' = [req EXCEPT ![r] = Tested(req[r], req[r].result.source # "error")]
    /\ UNCHANGED embVars
    /\ UNCHANGED <<now, config, providers, healthStatus, lastHealthCheck, aiAttached,
                   hs, liveLog, thrown>>

TestNext ==
    \/ \E r \in Reqs, k \in Keys : TestProvider(r, k)
    \/ \E r \in Reqs, c \in {"", "text"} : TestGenReturns(r, c)
    \/ \E r \in Reqs, e \in GenThrows("ollama") \cup GenThrows("mybot") : TestGenFails(r, e)
    \/ \E r \in Reqs : TestAIService(r)
    \/ \E r \in Reqs, o \in {"true", "false", "throws"} : HealthReturn(r, o)
    \/ \E r \in Reqs : GenSucceeds(r)
    \/ \E r \in Reqs, e \in GenThrows("ollama") \cup GenThrows("mybot") : GenFails(r, e)
    \/ Elapse
    \/ \E r \in Reqs : WakeUp(r)
    \/ \E r \in Reqs : TestAIServiceReturn(r)

TestSpec == TestInit /\ [][TestNext]_vars

-----------------------------------------------------------------------------
(* AIService.getServiceInfo *)

\* this.lastHealthCheck.get(name) of a name that has no entry: undefined
Undefined == -1

\* getServiceInfo().providers: one entry per registry key, in the order of the
\* registry, with the provider's own info (its name) and the two cache
\* entries read under the registry key.
GetServiceInfo ==
    [i \in 1..Len(providers) |->
        [ key             |-> providers[i].key,
          name            |-> providers[i].name,
          healthy         |-> MapGet(healthStatus, providers[i].key, FALSE),
          lastHealthCheck |-> MapGet(lastHealthCheck, providers[i].key, Undefined) ]]

\* C27: for every registered provider, under whatever key it was registered,
\* getServiceInfo reports the time recorded by the most recent health check
\* of that provider together with the health value recorded with it, and
\* reports unhealthy with no time for a provider that was never checked.
\* (checkProviderHealth records a check under the provider's own name.)
C27_ServiceInfo ==
    \A i \in 1..Len(providers) :
        LET info == GetServiceInfo[i]
        IN  IF info.name \in DOMAIN liveLog
            THEN /\ info.lastHealthCheck = liveLog[info.name]
                 /\ info.healthy = MapGet(healthStatus, info.name, FALSE)
            ELSE /\ info.lastHealthCheck = Undefined
                 /\ ~info.healthy

-----------------------------------------------------------------------------
(* Concurrent requests: several generateResponse calls are under way on one
   AIService at a time and interleave at their awaits.  They share the clock,
   the configuration, the registry and the health cache. *)

ConcReqs == {1, 2}

ConcInit ==
    /\ now = T0
    /\ config \in SmartConfigs
    /\ providers = InitializeProviders(config)
    /\ healthStatus = EmptyMap
    /\ lastHealthCheck = EmptyMap
    /\ aiAttached = TRUE
    /\ req = [r \in ConcReqs |-> IdleReq]
    /\ hs = IdleHs
    /\ liveLog = EmptyMap
    /\ thrown = ""
    /\ EmbIdle

\* Time passes.
Pass ==
    /\ now < MaxTime
    /\ now' = now + 1
    /\ UNCHANGED embVars
    /\ UNCHANGED <<config, providers, healthStatus, lastHealthCheck, aiAttached,
                   req, hs, liveLog, thrown>>

\* A caller calls generateResponse, whatever the other callers' requests are
\* doing; each caller calls once.
ConcCall(r) ==
    /\ req[r].pc = "idle"
    /\ req' = [req EXCEPT ![r] = Attempt([IdleReq EXCEPT !.entered = TRUE])]
    /\ UNCHANGED embVars
    /\ UNCHANGED <<now, config, providers, healthStatus, lastHealthCheck, aiAttached,
                   hs, liveLog, thrown>>

ConcNext ==
    \/ Pass
    \/ \E r \in ConcReqs : ConcCall(r)
    \/ \E r \in ConcReqs, o \in HealthOutcomes("ollama") : HealthReturn(r, o)
    \/ \E r \in ConcReqs : GenSucceeds(r)
    \/ \E r \in ConcReqs, c \in {"refused", "timeout"} : FetchFails(r, c)
    \/ \E r \in ConcReqs : WakeUp(r)

ConcSpec == ConcInit /\ [][ConcNext]_vars

\* C28: under any interleaving of concurrent requests each request makes at
\* most retryAttempts + 1 attempts, calls the generation only in an attempt in
\* which it read a healthy status, and with fallback enabled ends with an 'ai'
\* or a 'fallback' response.
C28_PerRequestGuarantees ==
    \A r \in ConcReqs :
        LET q == req[r]
        IN  /\ Len(q.trace) <= config.retryAttempts + 1
            /\ q.pc # "done" => Len(q.trace) <= config.retryAttempts
            /\ \A i \in 1..Len(q.trace) :
                  q.trace[i].gen # "none" => q.trace[i].health \in Healthy
            /\ q.pc = "gen_wait" => q.health \in Healthy
            /\ (q.pc = "done" /\ config.fallbackEnabled)
                  => q.result.source \in {"ai", "fallback"}

\* C28 witness: request 1 is in its generation call, which it entered on a
\* healthy probe of its own, while request 2, started meanwhile, has recorded
\* the provider as unhealthy in the shared cache and sleeps before its retry.
C28_Witness ==
    /\ req[1].pc = "gen_wait"
    /\ req[1].health = "live_ok"
    /\ req[2].pc = "sleep"
    /\ Len(req[2].trace) = 1
    /\ req[2].trace[1].health = "live_bad"
    /\ healthStatus["ollama"] = FALSE

\* The step ends the health check of request r on provider `name`, and the
\* entry of `name` after the step is what that check had: the time it read
\* before awaiting the probe, and the health it went on with.
WrittenByCheckOf(r, name) ==
    /\ req[r].pc = "hc_wait" /\ req[r].cur = name
    /\ req'[r].pc # "hc_wait"
    /\ name \in DOMAIN healthStatus' /\ name \in DOMAIN lastHealthCheck'
    /\ lastHealthCheck'[name] = req[r].hcNow
    /\ healthStatus'[name] = (req'[r].pc = "gen_wait")

\* Value and timestamp of an entry are only ever written together, by one check.
SameCheck ==
    \A name \in ProviderNames :
        \/ /\ name \notin DOMAIN healthStatus \cup DOMAIN lastHealthCheck
           /\ name \notin DOMAIN healthStatus' \cup DOMAIN lastHealthCheck'
        \/ /\ name \in DOMAIN healthStatus \cap DOMAIN lastHealthCheck
           /\ EntryKept(name)
        \/ \E r \in ConcReqs : WrittenByCheckOf(r, name)

\* The timestamp of an entry does not decrease.
TimestampGrows ==
    \A name \in DOMAIN lastHealthCheck :
        /\ name \in DOMAIN lastHealthCheck'
        /\ lastHealthCheck'[name] >= lastHealthCheck[name]

\* C30: under any interleaving of concurrent health checks, the last-checked
\* time stored for a provider name never decreases, and it belongs to the
\* same health check as the stored health value.
C30_TimestampMonotone == [][TimestampGrows /\ SameCheck]_vars

\* C30 (amended): under any interleaving of concurrent health checks, value
\* and time of an entry are written together by one check, the one that
\* finished last, the time being the one that check read before it awaited
\* its probe.
C30_SameCheckLastWrite == [][SameCheck]_vars

\* C30 witness: two checks of the same provider overlapped; the check of
\* request 2 recorded "unhealthy", and the check of request 1, begun at the
\* start and finished after it, has overwritten the entry with "healthy" and
\* its own, earlier time.
C30_Witness ==
    /\ now > T0
    /\ req[2].pc = "sleep"
    /\ Len(req[2].trace) = 1
    /\ req[2].trace[1].health = "live_bad"
    /\ req[1].pc = "gen_wait"
    /\ req[1].health = "live_ok"
    /\ healthStatus["ollama"] = TRUE
    /\ lastHealthCheck["ollama"] = T0

-----------------------------------------------------------------------------
(* The primary provider and the registry *)

\* this.providers.has(this.config.primaryProvider): getPrimaryProvider finds one
PrimaryRegistered == RegHas(providers, config.primaryProvider)

\* C29 (as stated): after any sequence of the constructor, addProvider,
\* setPrimaryProvider, updateConfig and shutdown, the configured primary
\* provider is in the registry.
C29_PrimaryRegistered == PrimaryRegistered

\* C29 (amended): a setPrimaryProvider that does not throw leaves the primary
\* provider registered, and once the primary provider is registered only
\* updateConfig and shutdown can make it unregistered (addProvider and
\* setPrimaryProvider cannot).
C29_PrimaryKeptBySwitchAndAdd ==
    /\ [][((\E k \in Keys : SetPrimaryProvider(k)) /\ thrown' = "")
              => PrimaryRegistered']_vars
    /\ [][(PrimaryRegistered /\ ~PrimaryRegistered')
              => (Shutdown \/ \E p \in ConfigPatches : UpdateConfig(p))]_vars

\* C29 witness: the primary provider is one that addProvider registered, next
\* to the configured one, and the last operation did not throw.
C29_Witness ==
    /\ config.primaryProvider = "custom"
    /\ RegHas(providers, "custom")
    /\ RegHas(providers, "ollama")
    /\ thrown = ""
    /\ NoneInFlight

=============================================================================
